---------------------------- MODULE Spec2Model ----------------------------
(***************************************************************************)
(* Model of the input relay, the run timer and the session scheduler of    *)
(* pindlebot-v2:                                                           *)
(*   - ArduinoHID (src/src/utils/arduino_hid.py): the serial relay, its    *)
(*     connection state and the request/acknowledgment round trip;         *)
(*   - mouse (src/src/utils/custom_mouse.py): the public mouse surface     *)
(*     that routes to the relay or to the software mouse library and       *)
(*     applies the inventory interlock to left clicks;                     *)
(*   - RunTimer (src/src/utils/run_timer.py): the phase stopwatch and the  *)
(*     telemetry log it appends to, read back by load_records              *)
(*     (src/analyze_timing.py);                                            *)
(*   - SessionManager (src/src/utils/session_manager.py): the session and  *)
(*     daily play-time limits.                                             *)
(* Every public call is one action.  The variable `last` records what the  *)
(* last call did (transport calls, commands handed to the relay, calls to  *)
(* the software library, its return value, the exception it let escape).   *)
(***************************************************************************)
EXTENDS Integers, Sequences, FiniteSets

VARIABLES
    connected,      \* ArduinoHID.connected
    serial,         \* ArduinoHID.serial: "none" | "open" | "closed" (is_open)
    arduino,        \* custom_mouse._arduino: "none" | "hid"
    swInstalled,    \* whether `import mouse` succeeds on this machine
    swMouse,        \* custom_mouse._software_mouse is not None
    pos,            \* the physical cursor, monitor coordinates <<x, y>>
    last,           \* record of the last call
    now,            \* time.time(), in units of 0.1 ms
    active,         \* RunTimer._active: phase -> begin time of a pending start
    current_run,    \* RunTimer._current_run: insertion-ordered <<[k, v], ...>>
    history,        \* RunTimer._history: key -> durations across runs
    run_start,      \* RunTimer._run_start: << >> (None) or <<time>>
    phase_order,    \* RunTimer._phase_order
    timing_log,     \* the lines of log/timing/timing.jsonl
    tlast,          \* record of the last RunTimer call
    session_start,          \* SessionManager.session_start: << >> or <<time>>
    session_length_s,       \* SessionManager.session_length_s
    total_play_time_today,  \* SessionManager.total_play_time_today
    runs_this_session,      \* SessionManager.runs_this_session
    total_runs_today,       \* SessionManager.total_runs_today
    run_log,        \* SessionManager._run_log, the buffer of run records
    day_file,       \* log/runs/runs_<day>.json: << >> (absent) or <<text>>
    slast,          \* record of the last SessionManager call
    wire,           \* the serial line to a device that answers every command
    calc            \* record of the last call of a function of the analyzer

inputVars == <<connected, serial, arduino, swInstalled, swMouse, pos, last>>

timerVars ==
    <<active, current_run, history, run_start, phase_order, timing_log, tlast>>

logVars == <<runs_this_session, total_runs_today, run_log, day_file>>

schedVars ==
    <<session_start, session_length_s, total_play_time_today, slast, logVars>>

toolVars == <<wire, calc>>

vars == <<inputVars, now, timerVars, schedVars, toolVars>>

---------------------------------------------------------------------------
(* Bounds of the model *)

\* the longest sampled curve (number of parametric samples, target included)
MaxCurveLen == 2

\* the most runs logged in a day
MaxLoggedRuns == 3

\* the most records of a log given to the outlier pass
MaxRecords == 5

\* the most lines of a log of mixed lines
MaxLines == 3

\* the longest list given to percentile
MaxVals == 4

\* the most command lines written to the serial line
MaxCommands == 6

\* the latest send of a move at which the transport may fail
MaxFailAt == 1

\* the latest clock reading followed while the run timer is exercised
MaxTimerClock == 12

\* the most entries followed in one list of the in-memory history
MaxRuns == 1

\* the quarters of an hour followed while the session scheduler is exercised
MaxQuarters == 5

---------------------------------------------------------------------------
(* Bytes and response lines.  A line is a sequence of byte values, as      *)
(* serial.readline() returns it, terminator included.                      *)

Max(a, b) == IF a >= b THEN a ELSE b
Min(a, b) == IF a <= b THEN a ELSE b
Abs(a) == IF a < 0 THEN -a ELSE a

LineOK        == <<79, 75, 13, 10>>                  \* "OK\r\n"
LineSAFETY    == <<83, 65, 70, 69, 84, 89, 13, 10>>  \* "SAFETY\r\n"
LineERR       == <<69, 82, 82, 13, 10>>              \* "ERR\r\n"
LineERRcode   == <<69, 82, 82, 58, 49, 10>>          \* "ERR:1\n"
LineTimeout   == << >>                               \* nothing before the timeout
LineLowerOk   == <<111, 107, 10>>                    \* "ok\n"
LineER        == <<69, 82, 10>>                      \* "ER\n"
LineXERR      == <<88, 69, 82, 82, 10>>              \* "XERR\n"
LineOKAY      == <<79, 75, 65, 89, 10>>              \* "OKAY\n"
LineNoise     == <<255, 10>>                         \* a byte that is not ASCII

Responses ==
    {LineOK, LineSAFETY, LineERR, LineERRcode, LineTimeout, LineLowerOk,
     LineER, LineXERR, LineOKAY, LineNoise}

\* the answers that differ in what they do to a mouse operation
MouseResponses == {LineOK, LineSAFETY, LineNoise}

\* bytes.decode('ascii') succeeds
Decodable(line) == \A i \in 1..Len(line) : line[i] < 128

\* str.isspace() on an ASCII character
IsSpace(c) == c \in {9, 10, 11, 12, 13, 28, 29, 30, 31, 32}

RECURSIVE LStrip(_)
LStrip(s) == IF s # << >> /\ IsSpace(Head(s)) THEN LStrip(Tail(s)) ELSE s

RECURSIVE RStrip(_)
RStrip(s) ==
    IF s # << >> /\ IsSpace(s[Len(s)]) THEN RStrip(SubSeq(s, 1, Len(s) - 1)) ELSE s

\* str.strip()
Strip(s) == RStrip(LStrip(s))

\* str.startswith(p)
StartsWith(s, p) == Len(s) >= Len(p) /\ SubSeq(s, 1, Len(p)) = p

TextOK     == <<79, 75>>
TextSAFETY == <<83, 65, 70, 69, 84, 89>>
TextERR    == <<69, 82, 82>>

---------------------------------------------------------------------------
(* ArduinoHID._send *)

\* what the acknowledgment branch makes of a response line: the value
\* returned, or the exception decode() raises
AckOutcome(line) ==
    IF ~Decodable(line) THEN [ret |-> "None", raised |-> "UnicodeDecodeError"]
    ELSE LET response == Strip(line) IN
         IF response = TextOK THEN [ret |-> "True", raised |-> "none"]
         ELSE IF response = TextSAFETY THEN [ret |-> "False", raised |-> "none"]
         ELSE IF StartsWith(response, TextERR) THEN [ret |-> "False", raised |-> "none"]
         ELSE [ret |-> "True", raised |-> "none"]

\* (a guard that looks at the port alone)
SendRefusesIgnoringFlag(conn, ser) == ser # "open"

\* the guard of _send: it refuses when not connected or without an open port
SendRefuses(conn, ser) == ~conn \/ ser # "open"

\* (an except clause that forgets the flag)
AfterSerialExceptionKeep(conn) == conn

\* the state SerialException leaves in `connected`
AfterSerialException(conn) == FALSE

\* (a failure answer treated like a transport error)
AfterResponseDemoteOnFailure(conn, line) ==
    IF AckOutcome(line).ret = "False" THEN FALSE ELSE conn

\* the state a protocol answer (any line read) leaves in `connected`
AfterResponse(conn, line) == conn

\* One call of _send.  fail: the transport call that raises SerialException
\* ("none", "write", "flush", "read"); resp: the line readline() returns.
\* Result: the new `connected`, the value returned, the exception that
\* escapes, the transport calls made, and whether the line was written.
SendOutcome(conn, ser, wait_ack, fail, resp) ==
    IF SendRefuses(conn, ser)
    THEN [connected |-> conn, ret |-> "False", raised |-> "none",
          io |-> << >>, written |-> FALSE]
    ELSE IF fail = "write"
    THEN [connected |-> AfterSerialException(conn), ret |-> "False",
          raised |-> "none", io |-> <<"write">>, written |-> FALSE]
    ELSE IF fail = "flush"
    THEN [connected |-> AfterSerialException(conn), ret |-> "False",
          raised |-> "none", io |-> <<"write", "flush">>, written |-> TRUE]
    ELSE IF ~wait_ack
    THEN [connected |-> conn, ret |-> "True", raised |-> "none",
          io |-> <<"write", "flush">>, written |-> TRUE]
    ELSE IF fail = "read"
    THEN [connected |-> AfterSerialException(conn), ret |-> "False",
          raised |-> "none", io |-> <<"write", "flush", "readline">>,
          written |-> TRUE]
    ELSE [connected |-> AfterResponse(conn, resp), ret |-> AckOutcome(resp).ret,
          raised |-> AckOutcome(resp).raised,
          io |-> <<"write", "flush", "readline">>, written |-> TRUE]

\* the transport calls of one send that may raise SerialException
Fails(wait_ack) == IF wait_ack THEN {"none", "write", "flush", "read"}
                   ELSE {"none", "write", "flush"}

---------------------------------------------------------------------------

\* what the transport does to one call: the call that raises SerialException
\* (if any) and the line readline() returns, drawn from R
Envs(R, conn, ser, wait_ack) ==
    IF SendRefuses(conn, ser) THEN {[fail |-> "none", resp |-> LineTimeout]}
    ELSE {[fail |-> f, resp |-> LineTimeout] : f \in Fails(wait_ack) \ {"none"}}
         \cup {[fail |-> "none", resp |-> r] :
                 r \in IF wait_ack THEN R ELSE {LineTimeout}}

---------------------------------------------------------------------------
(* The record of the last call *)

NoCall ==
    [op |-> "init", preConnected |-> FALSE, preSerial |-> "none",
     ack |-> FALSE, fail |-> "none", resp |-> << >>,
     ret |-> "None", raised |-> "none",
     io |-> << >>, steps |-> << >>,
     button |-> "", issued |-> << >>, sw |-> << >>, ui |-> 0,
     invOpen |-> FALSE, forbidden |-> FALSE, outcome |-> "n/a",
     pairs |-> << >>, target |-> << >>, swTarget |-> << >>, key |-> "", failAt |-> 0]

Cmd(tag, a, b) == [tag |-> tag, a |-> a, b |-> b]

\* commands of the relay's key operations
KeyCommands == {Cmd("PING", 0, 0), Cmd("KEY", 97, 50)}

---------------------------------------------------------------------------
(* ArduinoHID: connect, disconnect, _send *)

ConnectSteps(failAt) ==
    IF failAt = "open" THEN <<"open">>
    ELSE IF failAt = "reset_input_buffer"
    THEN <<"open", "sleep", "reset_input_buffer">>
    ELSE <<"open", "sleep", "reset_input_buffer", "connected">>

\* (an except clause that leaves the flag as it was)
ConnectedAfterConnectKeep(conn, failAt) == IF failAt = "none" THEN TRUE ELSE conn

\* `connected` after connect(): set at the end of the try block, cleared by
\* the except clause
ConnectedAfterConnect(conn, failAt) == failAt = "none"

\* connect(): failAt names the transport call that raises SerialException
ConnectBody(failAt) ==
    /\ serial' = IF failAt = "open" THEN serial ELSE "open"
    /\ connected' = ConnectedAfterConnect(connected, failAt)
    /\ last' = [NoCall EXCEPT
                  !.op = "connect", !.preConnected = connected,
                  !.preSerial = serial, !.fail = failAt,
                  !.steps = ConnectSteps(failAt),
                  !.ret = IF failAt = "none" THEN "True" ELSE "False"]

Connect ==
    /\ \E failAt \in {"none", "open", "reset_input_buffer"} : ConnectBody(failAt)
    /\ UNCHANGED <<arduino, swInstalled, swMouse, pos>>

\* the port after disconnect(): the PING probe and close() share one try
\* block, whose `except Exception` swallows whatever the probe raises
SerialAfterDisconnect(ser, out) ==
    IF ser = "open" /\ out.raised = "none" THEN "closed" ELSE ser

DisconnectBody(env) ==
    \E out \in {SendOutcome(connected, serial, TRUE, env.fail, env.resp)} :
       /\ serial' = SerialAfterDisconnect(serial, out)
       /\ connected' = FALSE
       /\ last' = [NoCall EXCEPT
                     !.op = "disconnect", !.preConnected = connected,
                     !.preSerial = serial, !.fail = env.fail,
                     !.resp = env.resp, !.ack = TRUE,
                     !.issued = IF serial = "open" THEN <<Cmd("PING", 0, 0)>>
                                ELSE << >>,
                     !.io = IF serial = "open" THEN out.io ELSE << >>]

Disconnect(R) ==
    /\ \E env \in Envs(R, connected, serial, TRUE) : DisconnectBody(env)
    /\ UNCHANGED <<arduino, swInstalled, swMouse, pos>>

\* _send(command, wait_ack)
SendBody(cmd, wait_ack, env) ==
    \E out \in {SendOutcome(connected, serial, wait_ack, env.fail, env.resp)} :
       /\ connected' = out.connected
       /\ last' = [NoCall EXCEPT
                     !.op = "send", !.preConnected = connected,
                     !.preSerial = serial, !.ack = wait_ack,
                     !.fail = env.fail, !.resp = env.resp,
                     !.ret = out.ret, !.raised = out.raised,
                     !.issued = <<cmd>>, !.io = out.io]

Send(R) ==
    /\ \E cmd \in KeyCommands, wait_ack \in BOOLEAN :
         \E env \in Envs(R, connected, serial, wait_ack) :
            SendBody(cmd, wait_ack, env)
    /\ UNCHANGED <<serial, arduino, swInstalled, swMouse, pos>>

---------------------------------------------------------------------------
(* ArduinoHID: key_down, key_up *)

\* SPECIAL_KEYS: key name -> Arduino key code
SPECIAL_KEYS ==
    {[name |-> "esc", code |-> 177], [name |-> "escape", code |-> 177],
     [name |-> "enter", code |-> 176], [name |-> "return", code |-> 176],
     [name |-> "tab", code |-> 179], [name |-> "backspace", code |-> 178],
     [name |-> "insert", code |-> 209], [name |-> "delete", code |-> 212],
     [name |-> "home", code |-> 210], [name |-> "end", code |-> 213],
     [name |-> "pageup", code |-> 211], [name |-> "pagedown", code |-> 214],
     [name |-> "up", code |-> 218], [name |-> "down", code |-> 217],
     [name |-> "left", code |-> 216], [name |-> "right", code |-> 215],
     [name |-> "left_ctrl", code |-> 128], [name |-> "left_shift", code |-> 129],
     [name |-> "left_alt", code |-> 130], [name |-> "right_ctrl", code |-> 132],
     [name |-> "right_shift", code |-> 133], [name |-> "right_alt", code |-> 134],
     [name |-> "f1", code |-> 194], [name |-> "f2", code |-> 195],
     [name |-> "f3", code |-> 196], [name |-> "f4", code |-> 197],
     [name |-> "f5", code |-> 198], [name |-> "f6", code |-> 199],
     [name |-> "f7", code |-> 200], [name |-> "f8", code |-> 201],
     [name |-> "f9", code |-> 202], [name |-> "f10", code |-> 203],
     [name |-> "f11", code |-> 204], [name |-> "f12", code |-> 205]}

SpecialNames == {k.name : k \in SPECIAL_KEYS}

\* keys of one character, with their code points, and a name that is in no
\* table
CharKeys == {[name |-> "a", code |-> 97], [name |-> "1", code |-> 49]}
KeyNames == {k.name : k \in CharKeys} \cup SpecialNames \cup {"foo"}

\* the commands key_down / key_up hand to _send for a key: the character
\* itself for a key of one character, chr(code) for a special key, nothing
\* for any other name.  The command carries the code point of its character.
KeyHeldCommands(tag, key) ==
    IF \E k \in CharKeys : k.name = key
    THEN <<Cmd(tag, (CHOOSE k \in CharKeys : k.name = key).code, 0)>>
    ELSE IF key \in SpecialNames
    THEN <<Cmd(tag, (CHOOSE k \in SPECIAL_KEYS : k.name = key).code, 0)>>
    ELSE << >>

\* f"{command}\n".encode('ascii') succeeds: every character is below 128
EncodesAscii(cmd) == cmd.a < 128

\* _send of a command line that carries a character: the guard, then the
\* encoding, whose UnicodeEncodeError no except clause catches, then the
\* transport
SendLine(conn, ser, cmd, fail, resp) ==
    IF ~SendRefuses(conn, ser) /\ ~EncodesAscii(cmd)
    THEN [connected |-> conn, ret |-> "None", raised |-> "UnicodeEncodeError",
          io |-> << >>, written |-> FALSE]
    ELSE SendOutcome(conn, ser, TRUE, fail, resp)

\* key_down(key) (tag KEY_DOWN) and key_up(key) (tag KEY_UP)
KeyHold(op, tag, R) ==
    /\ \E key \in KeyNames, env \in Envs(R, connected, serial, TRUE) :
         \E cmds \in {KeyHeldCommands(tag, key)} :
            IF cmds = << >>
            THEN /\ env.fail = "none" /\ env.resp = LineTimeout
                 /\ last' = [NoCall EXCEPT !.op = op, !.key = key,
                                !.preConnected = connected,
                                !.preSerial = serial]
                 /\ UNCHANGED connected
            ELSE \E out \in {SendLine(connected, serial, cmds[1], env.fail,
                                      env.resp)} :
                   /\ connected' = out.connected
                   /\ last' = [NoCall EXCEPT
                                 !.op = op, !.key = key,
                                 !.preConnected = connected,
                                 !.preSerial = serial, !.ack = TRUE,
                                 !.fail = env.fail, !.resp = env.resp,
                                 !.raised = out.raised, !.issued = cmds,
                                 !.io = out.io]
    /\ UNCHANGED <<serial, arduino, swInstalled, swMouse, pos>>

---------------------------------------------------------------------------
(* custom_mouse: helpers *)

\* the targets the control loop asks for
Targets == {<<0, 0>>, <<255, 150>>, <<127, 127>>}

\* the noisy samples a curve may pass through
SamplePts == {<<255, 150>>}

\* relative requests (absolute = False)
RelOffsets == {<<-128, -23>>}

\* the `randomize` argument: an int, or a pair of per-axis ranges
RandomizeArgs ==
    {[kind |-> "int", rx |-> 0, ry |-> 0], [kind |-> "int", rx |-> 1, ry |-> 1],
     [kind |-> "tuple", rx |-> 1, ry |-> 0]}

\* the jittered targets the model follows
Reach == Targets \cup {<<254, 149>>}

\* random.randrange(-r, +r)
RandRange(r) == (-r)..(r - 1)

\* the offsets move() adds to the target
JitterOffsets(rz) ==
    IF rz.kind = "int"
    THEN IF rz.rx > 0 THEN RandRange(rz.rx) \X RandRange(rz.rx) ELSE {<<0, 0>>}
    ELSE IF rz.ry > 0 /\ rz.rx > 0 THEN RandRange(rz.rx) \X RandRange(rz.ry)
         ELSE {<<0, 0>>}

\* the target after the relative offset and the jitter: x, y absolute or
\* relative to `from`, plus an offset drawn for the `randomize` argument
JitteredTargets(from) ==
    {<<t[1] + j[1], t[2] + j[2]>> :
       t \in Targets \cup {<<from[1] + o[1], from[2] + o[2]>> : o \in RelOffsets},
       j \in UNION {JitterOffsets(rz) : rz \in RandomizeArgs}}

Buttons == {"left", "right", "x2"}

\* random.gauss(60, 15) truncated by int()
HoldDraws == {12, 60}

\* screen.convert_monitor_to_screen: the window's offset on the monitor
WindowOffset == <<10, 5>>
ConvertMonitorToScreen(p) == <<p[1] - WindowOffset[1], p[2] - WindowOffset[2]>>

\* Config().ui_roi[...]: <<x, y, w, h>> in screen space
EquippedInventoryArea == <<200, 100, 100, 100>>
RestrictedInventoryArea == <<100, 100, 50, 50>>

\* utils.misc.is_in_roi
IsInRoi(roi, p) ==
    /\ roi[1] < p[1] /\ p[1] < roi[1] + roi[3]
    /\ roi[2] < p[2] /\ p[2] < roi[2] + roi[4]

InForbidden(p) ==
    \/ IsInRoi(RestrictedInventoryArea, ConvertMonitorToScreen(p))
    \/ IsInRoi(EquippedInventoryArea, ConvertMonitorToScreen(p))

\* (an interlock that never trips)
IsClickingSafeAlways(inventoryOpen, p) == TRUE

\* _is_clicking_safe, given what the template search detects
IsClickingSafe(inventoryOpen, p) == ~(inventoryOpen /\ InForbidden(p))

\* (an interlock applied to every button)
InterlockedAll(button) == TRUE

\* the condition under which click/press consult the interlock
Interlocked(button) == button = "left"

\* (a router that looks only at whether a relay was registered)
UseArduinoRegistered == arduino = "hid"

\* _use_arduino
UseArduino == arduino = "hid" /\ connected

\* _init_software_fallback: _software_mouse after the lazy import
SoftwareAfterInit == swMouse \/ swInstalled

\* hold_ms of mouse.click: the Gaussian draw floored at 30 ms
HoldMs(g) == Max(30, g)

\* btn_code of mouse_click / mouse_down / mouse_up
BtnCode(button) ==
    IF button = "right" THEN 2 ELSE IF button = "middle" THEN 3 ELSE 1

\* (no clamping)
ClampNone(d) == d

\* max(-127, min(127, d))
Clamp(d) == Max(-127, Min(127, d))

\* the while loop of _move_arduino: the steps handed to mouse_move_relative
\* for one delta
DecomposeOnce(dx, dy) ==
    IF Abs(dx) > 0 \/ Abs(dy) > 0 THEN <<<<Clamp(dx), Clamp(dy)>>>> ELSE << >>

RECURSIVE Decompose(_, _)
Decompose(dx, dy) ==
    IF Abs(dx) > 0 \/ Abs(dy) > 0
    THEN <<<<Clamp(dx), Clamp(dy)>>>> \o Decompose(dx - Clamp(dx), dy - Clamp(dy))
    ELSE << >>

\* mouse_move_relative: clamps again and builds the command
MouseMoveCommand(step) == Cmd("MOUSE_MOVE", Clamp(step[1]), Clamp(step[2]))

\* (a curve whose last sample keeps its noise)
BezierPointsNoisyEnd(start, end, samples) ==
    IF (end[1] - start[1]) * (end[1] - start[1])
         + (end[2] - start[2]) * (end[2] - start[2]) < 25
    THEN <<end>>
    ELSE samples

\* Humanizer.bezier_points: `samples` are the noisy samples of the curve, the
\* last of which is overwritten with the target
BezierPoints(start, end, samples) ==
    IF (end[1] - start[1]) * (end[1] - start[1])
         + (end[2] - start[2]) * (end[2] - start[2]) < 25
    THEN <<end>>
    ELSE [samples EXCEPT ![Len(samples)] = end]

\* the default num_points of bezier_points: max(15, int(distance / 5)), at
\* most 100
NumPoints(start, end) ==
    LET d2 == (end[1] - start[1]) * (end[1] - start[1])
                + (end[2] - start[2]) * (end[2] - start[2])
        r == CHOOSE q \in 0..100 :
               /\ 25 * q * q <= d2
               /\ q = 100 \/ 25 * (q + 1) * (q + 1) > d2
    IN Min(Max(15, r), 100)

SampleSeqs == UNION {[1..n -> SamplePts] : n \in 1..MaxCurveLen}

\* the commands handed to _send for the steps of one delta
StepCommands(steps) == [i \in 1..Len(steps) |-> MouseMoveCommand(steps[i])]

\* the walk of _move_arduino: per curve point its delta and the commands
\* handed to _send for it
RECURSIVE Walk(_, _)
Walk(prev, points) ==
    IF points = << >> THEN << >>
    ELSE <<[d |-> <<Head(points)[1] - prev[1], Head(points)[2] - prev[2]>>,
            cmds |-> StepCommands(Decompose(Head(points)[1] - prev[1],
                                            Head(points)[2] - prev[2]))]>>
         \o Walk(Head(points), Tail(points))

RECURSIVE Flatten(_)
Flatten(pairs) ==
    IF pairs = << >> THEN << >> ELSE Head(pairs).cmds \o Flatten(Tail(pairs))

\* the unacknowledged sends of one move, in order; the k-th send (0: none)
\* meets a transport error in `failKind`.  moved: the displacement the device
\* made; allOk: every _send returned True.
RECURSIVE SendMoves(_, _, _, _, _)
SendMoves(acc, ser, cmds, k, failKind) ==
    IF cmds = << >> THEN acc
    ELSE \* one call of mouse_move_relative
         LET out == SendOutcome(acc.connected, ser, FALSE,
                                IF k = 1 THEN failKind ELSE "none", LineTimeout)
         IN SendMoves([connected |-> out.connected,
                       io |-> acc.io \o out.io,
                       moved |-> IF out.written
                                 THEN <<acc.moved[1] + Head(cmds).a,
                                        acc.moved[2] + Head(cmds).b>>
                                 ELSE acc.moved,
                       allOk |-> acc.allOk /\ out.ret = "True"],
                      ser, Tail(cmds), k - 1, failKind)

\* the value the mouse operations hand back to the caller: sent, whether a
\* relay command was issued, ok, whether _send returned True
ReturnValue(sent, ok) == "None"

---------------------------------------------------------------------------
(* custom_mouse: the public operations *)

\* initialize_arduino(arduino_hid, humanizer); a Humanizer always comes with
\* the relay
InitializeArduino ==
    /\ \E hid \in {"none", "hid"} :
         /\ arduino' = hid
         /\ swMouse' = IF hid = "hid" /\ connected THEN swMouse ELSE SoftwareAfterInit
         /\ last' = [NoCall EXCEPT !.op = "initialize_arduino",
                       !.preConnected = connected]
    /\ UNCHANGED <<connected, serial, swInstalled, pos>>

\* mouse.move through the relay: _move_arduino
MoveArduino(to, samples, k, failKind) ==
    \E pairs \in {Walk(pos, BezierPoints(pos, to, samples))} :
    \E cmds \in {Flatten(pairs)} :
       /\ k <= Len(cmds)
       /\ \E out \in {SendMoves([connected |-> connected, io |-> << >>,
                                 moved |-> <<0, 0>>, allOk |-> TRUE],
                                serial, cmds, k, failKind)} :
            /\ connected' = out.connected
            /\ pos' = <<pos[1] + out.moved[1], pos[2] + out.moved[2]>>
            /\ swMouse' = swMouse
            /\ last' = [NoCall EXCEPT
                          !.op = "move", !.preConnected = connected,
                          !.fail = IF k = 0 THEN "none" ELSE failKind,
                          !.failAt = k,
                          !.ret = ReturnValue(TRUE, out.allOk),
                          !.outcome = IF out.allOk THEN "performed"
                                      ELSE "send_failed",
                          !.issued = cmds, !.io = out.io, !.pairs = pairs,
                          !.target = to]

\* mouse.move through the software library
MoveSoftware(to) ==
    /\ connected' = connected
    /\ swMouse' = SoftwareAfterInit
    /\ pos' = IF SoftwareAfterInit THEN to ELSE pos
    /\ last' = [NoCall EXCEPT
                  !.op = "move", !.preConnected = connected,
                  !.target = to,
                  !.swTarget = IF SoftwareAfterInit THEN to ELSE << >>,
                  !.ret = ReturnValue(FALSE, TRUE),
                  !.outcome = IF SoftwareAfterInit THEN "performed"
                              ELSE "no_backend",
                  !.sw = IF SoftwareAfterInit
                         THEN <<"get_position", "move">> ELSE << >>]

\* mouse.move(x, y, absolute, randomize)
Move ==
    /\ \E to \in JitteredTargets(pos) \cap Reach :
         IF UseArduino
         THEN \E samples \in SampleSeqs, k \in 0..MaxFailAt,
                 failKind \in {"write", "flush"} :
                 /\ (k = 0 => failKind = "write")
                 /\ MoveArduino(to, samples, k, failKind)
         ELSE MoveSoftware(to)
    /\ UNCHANGED <<serial, arduino, swInstalled>>

\* mouse.click(button) and mouse.press(button).  inventoryOpen: what the
\* template search would detect at the time of the call; g: the hold draw.
ClickBody(op, button, inventoryOpen, g, env) ==
    LET check == Interlocked(button)
        swAtCheck == IF check /\ ~UseArduino THEN SoftwareAfterInit ELSE swMouse
        go == ~check \/ IsClickingSafe(inventoryOpen, pos)
        cmd == IF op = "click"
               THEN Cmd("MOUSE_CLICK", BtnCode(button), HoldMs(g))
               ELSE Cmd("MOUSE_DOWN", BtnCode(button), 0)
        out == SendOutcome(connected, serial, TRUE, env.fail, env.resp)
        viaRelay == go /\ UseArduino
        viaSoftware == go /\ ~UseArduino /\ SoftwareAfterInit
        base == [NoCall EXCEPT
                   !.op = op, !.preConnected = connected,
                   !.button = button, !.invOpen = inventoryOpen,
                   !.forbidden = InForbidden(pos),
                   !.ui = IF check THEN 1 ELSE 0,
                   !.sw = IF check /\ ~UseArduino /\ swAtCheck
                          THEN <<"get_position">> ELSE << >>]
    IN /\ connected' = IF viaRelay THEN out.connected ELSE connected
       /\ swMouse' = IF go /\ ~UseArduino THEN SoftwareAfterInit ELSE swAtCheck
       /\ last' =
            IF ~go THEN [base EXCEPT !.outcome = "refused",
                                     !.ret = ReturnValue(FALSE, FALSE)]
            ELSE IF viaRelay
            THEN [base EXCEPT !.ack = TRUE, !.fail = env.fail, !.resp = env.resp,
                     !.issued = <<cmd>>, !.io = out.io, !.raised = out.raised,
                     !.outcome = IF out.raised # "none" THEN "raised"
                                 ELSE IF out.ret = "True" THEN "performed"
                                 ELSE "send_failed",
                     !.ret = IF out.raised # "none" THEN "None"
                             ELSE ReturnValue(TRUE, out.ret = "True")]
            ELSE IF viaSoftware
            THEN [base EXCEPT !.sw = base.sw \o <<op>>, !.outcome = "performed",
                              !.ret = ReturnValue(FALSE, TRUE)]
            ELSE [base EXCEPT !.outcome = "no_backend",
                              !.ret = ReturnValue(FALSE, TRUE)]

\* the inputs of a click that reach the code: the hold draw and the transport
\* matter only to a call that goes to the relay
ClickInputs(R, button, inventoryOpen, draws) ==
    IF UseArduino /\ (~Interlocked(button) \/ IsClickingSafe(inventoryOpen, pos))
    THEN draws \X Envs(R, connected, serial, TRUE)
    ELSE {<<60, [fail |-> "none", resp |-> LineTimeout]>>}

Click(R) ==
    /\ \E button \in Buttons, inventoryOpen \in BOOLEAN :
         \E in \in ClickInputs(R, button, inventoryOpen, HoldDraws) :
            ClickBody("click", button, inventoryOpen, in[1], in[2])
    /\ UNCHANGED <<serial, arduino, swInstalled, pos>>

Press(R) ==
    /\ \E button \in Buttons, inventoryOpen \in BOOLEAN :
         \E in \in ClickInputs(R, button, inventoryOpen, {60}) :
            ClickBody("press", button, inventoryOpen, in[1], in[2])
    /\ UNCHANGED <<serial, arduino, swInstalled, pos>>

\* mouse.release(button): never interlocked
ReleaseBody(button, inventoryOpen, env) ==
    LET out == SendOutcome(connected, serial, TRUE, env.fail, env.resp)
        base == [NoCall EXCEPT
                   !.op = "release", !.preConnected = connected,
                   !.button = button,
                   !.invOpen = inventoryOpen, !.forbidden = InForbidden(pos)]
    IN /\ connected' = IF UseArduino THEN out.connected ELSE connected
       /\ swMouse' = IF UseArduino THEN swMouse ELSE SoftwareAfterInit
       /\ last' =
            IF UseArduino
            THEN [base EXCEPT !.ack = TRUE, !.fail = env.fail, !.resp = env.resp,
                     !.issued = <<Cmd("MOUSE_UP", BtnCode(button), 0)>>,
                     !.io = out.io, !.raised = out.raised,
                     !.outcome = IF out.raised # "none" THEN "raised"
                                 ELSE IF out.ret = "True" THEN "performed"
                                 ELSE "send_failed",
                     !.ret = IF out.raised # "none" THEN "None"
                             ELSE ReturnValue(TRUE, out.ret = "True")]
            ELSE IF SoftwareAfterInit
            THEN [base EXCEPT !.sw = <<"release">>, !.outcome = "performed",
                              !.ret = ReturnValue(FALSE, TRUE)]
            ELSE [base EXCEPT !.outcome = "no_backend",
                              !.ret = ReturnValue(FALSE, TRUE)]

Release(R) ==
    /\ \E button \in Buttons, inventoryOpen \in BOOLEAN :
         \E env \in IF UseArduino THEN Envs(R, connected, serial, TRUE)
                    ELSE {[fail |-> "none", resp |-> LineTimeout]} :
            ReleaseBody(button, inventoryOpen, env)
    /\ UNCHANGED <<serial, arduino, swInstalled, pos>>

---------------------------------------------------------------------------
(* The clock *)

\* time passes between two calls; two readings of time.time() may also be
\* equal (no Tick between the calls)
Tick(advances, maxClock) ==
    /\ \E d \in advances :
         /\ now + d <= maxClock
         /\ now' = now + d
    /\ UNCHANGED <<inputVars, timerVars, schedVars, toolVars>>

\* the advance followed while the run timer is exercised: 0.4 ms
TimerAdvances == {4}

---------------------------------------------------------------------------
(* run_timer: RunTimer, and load_records of analyze_timing *)

\* phase names, as the characters of the str: an ordinary phase and one whose
\* name starts with an underscore
PhaseCombat == <<"c", "o", "m", "b", "a", "t">>
PhaseHidden == <<"_", "d", "b", "g">>
Phases == {PhaseCombat, PhaseHidden}

\* the key end_run adds to the run
TotalKey == <<"_", "t", "o", "t", "a", "l">>
Keys == Phases \cup {TotalKey}

None == << >>

\* an insertion-ordered dict: a sequence of items [k, v] with distinct keys
Has(d, k) == \E i \in 1..Len(d) : d[i].k = k

\* dict.get(k, default)
Get(d, k, default) ==
    IF Has(d, k) THEN d[CHOOSE i \in 1..Len(d) : d[i].k = k].v ELSE default

\* d[k] = v
Put(d, k, v) ==
    IF Has(d, k)
    THEN [i \in 1..Len(d) |-> IF d[i].k = k THEN [k |-> k, v |-> v] ELSE d[i]]
    ELSE Append(d, [k |-> k, v |-> v])

\* (a start that keeps the begin time of a start already pending)
BeginKeepFirst(act, phase, t) ==
    [p \in DOMAIN act \cup {phase} |-> IF p \in DOMAIN act THEN act[p] ELSE t]

\* start: self._active[phase] = time.time()
BeginAfterStart(act, phase, t) ==
    [p \in DOMAIN act \cup {phase} |-> IF p = phase THEN t ELSE act[p]]

\* (a stop that records a zero duration for a phase with no pending start)
StopEffectRecordsIdle(act, cr, order, phase, t) ==
    IF phase \notin DOMAIN act
    THEN [active |-> act, current_run |-> Put(cr, phase, Get(cr, phase, 0)),
          phase_order |-> Append(order, phase), ret |-> 0]
    ELSE [active |-> [p \in DOMAIN act \ {phase} |-> act[p]],
          current_run |-> Put(cr, phase, Get(cr, phase, 0) + (t - act[phase])),
          phase_order |-> order, ret |-> t - act[phase]]

\* stop: the timer's fields after the call and the value returned
StopEffect(act, cr, order, phase, t) ==
    IF phase \notin DOMAIN act
    THEN [active |-> act, current_run |-> cr, phase_order |-> order, ret |-> 0]
    ELSE [active |-> [p \in DOMAIN act \ {phase} |-> act[p]],
          current_run |-> Put(cr, phase, Get(cr, phase, 0) + (t - act[phase])),
          phase_order |-> IF \E i \in 1..Len(order) : order[i] = phase
                          THEN order ELSE Append(order, phase),
          ret |-> t - act[phase]]

\* (a flush that drops the run)
FlushRunDrops(h, cr) == h

\* _flush_run: every item of the run is appended to the history of its key
FlushRun(h, cr) ==
    [k \in Keys |-> IF Has(cr, k) THEN Append(h[k], Get(cr, k, 0)) ELSE h[k]]

\* (rounding that keeps every digit)
RoundNone(v) == v

\* round(v, 3) of a non-negative duration: to a whole millisecond
Round3(v) == ((v + 5) \div 10) * 10

\* (a record that keeps every key of the run)
PersistedPhasesAll(cr) ==
    [i \in 1..Len(cr) |-> [k |-> cr[i].k, v |-> Round3(cr[i].v)]]

\* the "phases" mapping of _persist_run: the keys that do not start with "_"
PersistedPhases(cr) ==
    LET keep == SelectSeq(cr, LAMBDA it : ~StartsWith(it.k, <<"_">>))
    IN [i \in 1..Len(keep) |-> [k |-> keep[i].k, v |-> Round3(keep[i].v)]]

\* the record of _persist_run
RunRecord(cr, total, t) ==
    [ts |-> t, phases |-> PersistedPhases(cr), total |-> Round3(total)]

\* the text of a JSON document, as its tokens
Punct(c) == [t |-> "punct", c |-> c, k |-> << >>, n |-> 0]
Str(k) == [t |-> "str", c |-> "", k |-> k, n |-> 0]
Num(n) == [t |-> "num", c |-> "", k |-> << >>, n |-> n]

KeyTs == <<"t", "s">>
KeyPhases == <<"p", "h", "a", "s", "e", "s">>
KeyTotal == <<"t", "o", "t", "a", "l">>

RECURSIVE DumpsItems(_)
DumpsItems(d) ==
    IF d = << >> THEN << >>
    ELSE <<Str(Head(d).k), Num(Head(d).v)>> \o DumpsItems(Tail(d))

\* json.dumps(record)
JsonDumps(record) ==
    <<Punct("{"), Str(KeyTs), Num(record.ts), Str(KeyPhases), Punct("{")>>
    \o DumpsItems(record.phases)
    \o <<Punct("}"), Str(KeyTotal), Num(record.total), Punct("}")>>

\* a sequence of tokens is the inside of an object of numbers
RECURSIVE IsItems(_)
IsItems(toks) ==
    \/ toks = << >>
    \/ /\ Len(toks) >= 2
       /\ toks[1].t = "str"
       /\ toks[2].t = "num"
       /\ IsItems(SubSeq(toks, 3, Len(toks)))

RECURSIVE LoadsItems(_, _)
LoadsItems(acc, toks) ==
    IF toks = << >> THEN acc
    ELSE LoadsItems(Put(acc, toks[1].k, toks[2].n), SubSeq(toks, 3, Len(toks)))

\* the line is a record as _persist_run writes it
IsRecord(line) ==
      /\ Len(line) >= 9
      /\ line[1] = Punct("{")
      /\ line[2] = Str(KeyTs)
      /\ line[3].t = "num"
      /\ line[4] = Str(KeyPhases)
      /\ line[5] = Punct("{")
      /\ IsItems(SubSeq(line, 6, Len(line) - 4))
      /\ line[Len(line) - 3] = Punct("}")
      /\ line[Len(line) - 2] = Str(KeyTotal)
      /\ line[Len(line) - 1].t = "num"
      /\ line[Len(line)] = Punct("}")

\* the line is a JSON number and nothing else
IsNumber(line) == Len(line) = 1 /\ line[1].t = "num"

\* json.loads raises JSONDecodeError on the line; of the lines followed here,
\* on those that are neither a record nor a number
Malformed(line) == ~(IsRecord(line) \/ IsNumber(line))

\* json.loads(line) of a line that parses: a dict, or a number
JsonLoads(line) ==
    IF IsNumber(line) THEN [number |-> line[1].n]
    ELSE [ts |-> line[3].n,
          phases |-> LoadsItems(<< >>, SubSeq(line, 6, Len(line) - 4)),
          total |-> line[Len(line) - 1].n]

\* load_records: blank lines and malformed lines are skipped
RECURSIVE LoadRecords(_)
LoadRecords(lines) ==
    IF lines = << >> THEN << >>
    ELSE IF Head(lines) = << >> \/ Malformed(Head(lines))
    THEN LoadRecords(Tail(lines))
    ELSE <<JsonLoads(Head(lines))>> \o LoadRecords(Tail(lines))

\* (a percentile that takes the element below a fractional rank)
PercentileBelow(sorted_vals, p) ==
    IF sorted_vals = << >> THEN 0
    ELSE sorted_vals[Max(1, Min((Len(sorted_vals) * p[1] + p[2] - 1) \div p[2],
                                Len(sorted_vals)))]

\* percentile(sorted_vals, p), p the fraction p[1] / p[2]
Percentile(sorted_vals, p) ==
    IF sorted_vals = << >> THEN 0
    ELSE sorted_vals[Min((Len(sorted_vals) * p[1]) \div p[2],
                         Len(sorted_vals) - 1) + 1]

RECURSIVE SumOf(_, _)
SumOf(vals, acc) ==
    IF vals = << >> THEN acc ELSE SumOf(Tail(vals), acc + Head(vals))

\* phase_data[k] of analyze: the durations of phase k, in record order
PhaseVals(records, k) ==
    LET with == SelectSeq(records, LAMBDA r : Has(r.phases, k))
    IN [i \in 1..Len(with) |-> Get(with[i].phases, k, 0)]

\* phase_stats[k]: the count n and the sum s of the durations, mean = s / n;
\* dev = n * (sum of squares) - s^2, so that stdev^2 = dev / (n * (n - 1))
PhaseStats(records, k) ==
    LET vals == PhaseVals(records, k)
        s == SumOf(vals, 0)
    IN [n |-> Len(vals), s |-> s,
        dev |-> Len(vals) * SumOf([i \in 1..Len(vals) |-> vals[i] * vals[i]], 0)
                  - s * s]

\* stdev > 0
StdevPositive(st) == st.n > 1 /\ st.dev > 0

\* z = (duration - mean) / stdev as the fraction z^2 = num / den with its
\* sign, for stdev > 0
ZScore(duration, st) ==
    [neg |-> st.n * duration - st.s < 0,
     num |-> (st.n * duration - st.s) * (st.n * duration - st.s) * (st.n - 1),
     den |-> st.n * st.dev]

\* z >= outlier_z, outlier_z the non-negative fraction thr[1] / thr[2]
ZAtLeast(z, thr) ==
    ~z.neg /\ z.num * thr[2] * thr[2] >= thr[1] * thr[1] * z.den

\* a.z < b.z, for two z-scores that are not negative
ZLess(a, b) == a.z.num * b.z.den < b.z.num * a.z.den

\* (a list of outliers kept in the order of the phases of the run)
RECURSIVE InsertAtEnd(_, _)
InsertAtEnd(x, sorted) ==
    IF sorted = << >> THEN <<x>>
    ELSE <<Head(sorted)>> \o InsertAtEnd(x, Tail(sorted))

\* run_outliers.sort(key = z, reverse = True), one insertion of the stable
\* sort: x goes behind the entries whose z is not below its own
RECURSIVE InsertByZ(_, _)
InsertByZ(x, sorted) ==
    IF sorted = << >> THEN <<x>>
    ELSE IF ZLess(Head(sorted), x) THEN <<x>> \o sorted
    ELSE <<Head(sorted)>> \o InsertByZ(x, Tail(sorted))

\* the outliers of run i, as printed
RECURSIVE RunOutliers(_, _, _, _, _)
RunOutliers(records, i, items, thr, acc) ==
    IF items = << >> THEN acc
    ELSE LET st == PhaseStats(records, Head(items).k)
             z == ZScore(Head(items).v, st)
         IN IF StdevPositive(st) /\ ZAtLeast(z, thr)
            THEN RunOutliers(records, i, Tail(items), thr,
                   InsertByZ([run |-> i, phase |-> Head(items).k,
                              duration |-> Head(items).v, z |-> z], acc))
            ELSE RunOutliers(records, i, Tail(items), thr, acc)

RECURSIVE Outliers(_, _, _)
Outliers(records, i, thr) ==
    IF i > Len(records) THEN << >>
    ELSE RunOutliers(records, i, records[i].phases, thr, << >>)
           \o Outliers(records, i + 1, thr)

\* cv > HIGH_VARIANCE_CV, cv = stdev / mean when mean > 0 and 0 otherwise
HighVariance(st) ==
    /\ st.s > 0
    /\ st.n > 1
    /\ 25 * st.n * st.dev > 4 * st.s * st.s * (st.n - 1)

\* analyze(records, outlier_z): the exception it lets escape, the sections
\* it prints after the summary table and the outliers it lists
Analyze(records, thr) ==
    IF \E i \in 1..Len(records) : "phases" \notin DOMAIN records[i]
    THEN [exc |-> "AttributeError", sections |-> << >>, outliers |-> << >>]
    ELSE IF Len(records) < 5
    THEN [exc |-> "none", sections |-> <<"insufficient">>, outliers |-> << >>]
    ELSE [exc |-> "none",
          sections |-> <<"outliers">> \o
             (IF \E r \in 1..Len(records) : \E j \in 1..Len(records[r].phases) :
                   HighVariance(PhaseStats(records, records[r].phases[j].k))
              THEN <<"high_variance">> ELSE << >>),
          outliers |-> Outliers(records, 1, thr)]

\* records[-last_n:] of main when last_n < len(records); last_n is None or
\* <<n>>
LastN(records, last_n) ==
    IF last_n # None /\ last_n[1] < Len(records)
    THEN LET start == IF -last_n[1] < 0
                      THEN Max(0, Len(records) - last_n[1])
                      ELSE Min(-last_n[1], Len(records))
         IN SubSeq(records, start + 1, Len(records))
    ELSE records

\* main: the records loaded, the records analyzed and the outcome of analyze
Main(lines, last_n, thr) ==
    LET loaded == LoadRecords(lines)
        analyzed == LastN(loaded, last_n)
    IN [loaded |-> loaded, analyzed |-> analyzed, out |-> Analyze(analyzed, thr)]

\* what earlier processes left in the log: a line cut short and a blank line
TornLine == <<Punct("{"), Str(KeyTs)>>
EarlierLog == <<TornLine, << >> >>

\* (a log opened for writing instead of appending)
LogAfterWriteTruncating(log, line, ok) == IF ok THEN <<line>> ELSE log

\* the log after _persist_run: the line is appended unless the write raises
LogAfterWrite(log, line, ok) == IF ok THEN Append(log, line) ELSE log

\* the record of the last RunTimer call
NoTimerCall ==
    [op |-> "init", phase |-> << >>, ret |-> 0, pending |-> FALSE,
     ran |-> FALSE, wrote |-> FALSE]

\* the lists of the history have room for one more entry
HistoryRoom == \A k \in Keys : Len(history[k]) < MaxRuns

TimerFrame == UNCHANGED <<inputVars, now, schedVars, toolVars>>

\* (a start_run that keeps the pending starts)
ActiveKept(act) == act

\* start_run: self._active = {}
ActiveAfterStartRun(act) == << >>

\* RunTimer.start_run
StartRun ==
    /\ current_run # << >> => HistoryRoom
    /\ history' = IF current_run # << >> THEN FlushRun(history, current_run)
                  ELSE history
    /\ current_run' = << >>
    /\ active' = ActiveAfterStartRun(active)
    /\ phase_order' = << >>
    /\ run_start' = <<now>>
    /\ tlast' = [NoTimerCall EXCEPT !.op = "start_run",
                   !.ran = run_start # None]
    /\ UNCHANGED timing_log
    /\ TimerFrame

\* RunTimer.start(phase)
Start ==
    /\ \E phase \in Phases :
         /\ active' = BeginAfterStart(active, phase, now)
         /\ tlast' = [NoTimerCall EXCEPT !.op = "start", !.phase = phase,
                        !.pending = phase \in DOMAIN active]
    /\ UNCHANGED <<current_run, history, run_start, phase_order, timing_log>>
    /\ TimerFrame

\* RunTimer.stop(phase)
Stop ==
    /\ \E phase \in Phases :
       \E eff \in {StopEffect(active, current_run, phase_order, phase, now)} :
         /\ active' = eff.active
         /\ current_run' = eff.current_run
         /\ phase_order' = eff.phase_order
         /\ tlast' = [NoTimerCall EXCEPT !.op = "stop", !.phase = phase,
                        !.pending = phase \in DOMAIN active,
                        !.ret = eff.ret]
    /\ UNCHANGED <<history, run_start, timing_log>>
    /\ TimerFrame

\* RunTimer.end_run, with _persist_run and _flush_run; ok: the append to the
\* log does not raise.  _log_summary only logs.
EndRun ==
    /\ run_start # None => HistoryRoom
    /\ IF run_start = None
       THEN /\ tlast' = [NoTimerCall EXCEPT !.op = "end_run"]
            /\ UNCHANGED <<active, current_run, history, run_start,
                           phase_order, timing_log>>
       ELSE \E ok \in BOOLEAN :
            \E total \in {now - run_start[1]} :
            \E cr \in {Put(current_run, TotalKey, total)} :
              /\ timing_log' = LogAfterWrite(timing_log,
                                   JsonDumps(RunRecord(cr, total, now)), ok)
              /\ history' = FlushRun(history, cr)
              /\ current_run' = << >>
              /\ run_start' = None
              /\ tlast' = [NoTimerCall EXCEPT !.op = "end_run", !.ran = TRUE,
                             !.wrote = ok]
              /\ UNCHANGED <<active, phase_order>>
    /\ TimerFrame

---------------------------------------------------------------------------
(* session_manager: SessionManager *)

\* seconds and minutes in units of the clock
Seconds(n) == n * 10000
Minutes(n) == Seconds(n * 60)

\* the configuration: max_daily_hours, avg_session_minutes
MaxDailyHours == 1
AvgSessionMinutes == 20

\* random.gauss(avg_session_minutes, session_variance_minutes), in minutes
SessionDraws == {10, 35, 90}

\* (a session length that is not capped at twice the mean)
SessionMinutesUncapped(avg, draw) == Max(30, draw)

\* the minutes of _gaussian_session_length, for a configured mean and a draw
SessionMinutes(avg, draw) == Max(30, Min(avg * 2, draw))

\* the minutes of _gaussian_break_length, for a configured mean and a draw
BreakMinutes(avg, draw) == Max(5, Min(avg * 3, draw))

\* _gaussian_session_length, for a draw
GaussianSessionLength(minutes) ==
    Seconds(SessionMinutes(AvgSessionMinutes, minutes) * 60)

SessionLengths == {GaussianSessionLength(m) : m \in SessionDraws}

\* the advance followed while the scheduler is exercised: a quarter of an hour
SchedAdvances == {Minutes(15)}

\* the truth value Python gives an optional time
Truthy(t) == t # None /\ t[1] # 0

\* (a break that is due only after the session length is exceeded)
ShouldTakeBreakStrict ==
    IF session_start = None THEN FALSE
    ELSE now - session_start[1] > session_length_s

\* should_take_break
ShouldTakeBreak ==
    IF session_start = None THEN FALSE
    ELSE now - session_start[1] >= session_length_s

\* (a daily limit that counts closed sessions only)
ShouldStopForDayClosedOnly ==
    total_play_time_today >= Seconds(MaxDailyHours * 3600)

\* should_stop_for_day
ShouldStopForDay ==
    (total_play_time_today
       + (IF Truthy(session_start) THEN now - session_start[1] ELSE 0))
      >= Seconds(MaxDailyHours * 3600)

\* (a scheduler that looks at the daily limit only)
ShouldContinueRunningIgnoringBreak == ~ShouldStopForDay

\* should_continue_running
ShouldContinueRunning ==
    IF ShouldStopForDay THEN FALSE
    ELSE IF ShouldTakeBreak THEN FALSE
    ELSE TRUE

\* the record of the last SessionManager call; `started` keeps the time and
\* the sampled length of the latest start_session and `open` whether it found
\* a session open, `io` the file operations of the call and `exc` the
\* exception it let escape
NoSchedCall ==
    [op |-> "init", ret |-> FALSE, at |-> 0, started |-> << >>,
     io |-> << >>, exc |-> "none", open |-> FALSE]

\* round(run_duration, 2), durations in units of the clock
Round2(v) == ((v + 50) \div 100) * 100

\* the arguments of log_run: a duration and the items found
RunDurations == {123456}
ItemLists == {<< >>, << <<"r">> >>}

\* (a record that carries the two counters in each other's place)
RunDataSwapped(t, runNumber, sessionRun, duration, items) ==
    [timestamp |-> t, run_number |-> sessionRun, session_run |-> runNumber,
     duration_s |-> Round2(duration), items |-> items]

\* the run_data of log_run
RunData(t, runNumber, sessionRun, duration, items) ==
    [timestamp |-> t, run_number |-> runNumber, session_run |-> sessionRun,
     duration_s |-> Round2(duration), items |-> items]

\* json.dump of one run record: its values in key order
DumpRun(r) ==
    <<Punct("{"), Num(r.timestamp), Num(r.run_number), Num(r.session_run),
      Num(r.duration_s), Punct("[")>>
    \o [i \in 1..Len(r.items) |-> Str(r.items[i])]
    \o <<Punct("]"), Punct("}")>>

\* json.dump(existing, f): the text of the array
RECURSIVE DumpRuns(_, _)
DumpRuns(acc, recs) ==
    IF recs = << >> THEN acc \o <<Punct("]")>>
    ELSE DumpRuns(acc \o DumpRun(Head(recs)), Tail(recs))

\* the index after the strings that start at index j
RECURSIVE ItemsEnd(_, _)
ItemsEnd(text, j) ==
    IF j <= Len(text) /\ text[j].t = "str" THEN ItemsEnd(text, j + 1) ELSE j

\* json.load of the text from index i on, after the opening bracket:
\* <<records>>, or None when json.load raises JSONDecodeError
RECURSIVE LoadRuns(_, _, _)
LoadRuns(text, i, acc) ==
    IF i > Len(text) THEN None
    ELSE IF text[i] = Punct("]") THEN (IF i = Len(text) THEN <<acc>> ELSE None)
    ELSE IF /\ i + 5 <= Len(text)
            /\ text[i] = Punct("{")
            /\ \A k \in 1..4 : text[i + k].t = "num"
            /\ text[i + 5] = Punct("[")
    THEN LET j == ItemsEnd(text, i + 6)
         IN IF /\ j + 1 <= Len(text)
               /\ text[j] = Punct("]")
               /\ text[j + 1] = Punct("}")
            THEN LoadRuns(text, j + 2,
                   Append(acc,
                     [timestamp |-> text[i + 1].n,
                      run_number |-> text[i + 2].n,
                      session_run |-> text[i + 3].n,
                      duration_s |-> text[i + 4].n,
                      items |-> [m \in 1..(j - i - 6) |-> text[i + 5 + m].k]]))
            ELSE None
    ELSE None

SchedFrame == UNCHANGED <<inputVars, now, timerVars, toolVars>>

\* (a start_session that closes the open session first)
PlayTimeAfterStartClosing(total, start, t) ==
    IF Truthy(start) THEN total + (t - start[1]) ELSE total

\* total_play_time_today after start_session at time t: as it was
PlayTimeAfterStart(total, start, t) == total

\* SessionManager.start_session
StartSession ==
    /\ \E minutes \in SessionDraws :
         /\ session_length_s' = GaussianSessionLength(minutes)
         /\ slast' = [NoSchedCall EXCEPT !.op = "start_session", !.at = now,
                        !.started = <<now, GaussianSessionLength(minutes)>>,
                        !.open = session_start # None]
    /\ session_start' = <<now>>
    /\ runs_this_session' = 0
    /\ total_play_time_today' =
         PlayTimeAfterStart(total_play_time_today, session_start, now)
    /\ UNCHANGED <<total_runs_today, run_log, day_file>>
    /\ SchedFrame

\* (an end_session that keeps the latest session only)
PlayTimeAfterEndLatestOnly(total, start, t) ==
    IF Truthy(start) THEN t - start[1] ELSE total

\* total_play_time_today after end_session at time t
PlayTimeAfterEnd(total, start, t) ==
    IF Truthy(start) THEN total + (t - start[1]) ELSE total

\* SessionManager.end_session
EndSession ==
    /\ total_play_time_today' =
         PlayTimeAfterEnd(total_play_time_today, session_start, now)
    /\ session_start' = None
    /\ slast' = [slast EXCEPT !.op = "end_session", !.ret = FALSE, !.at = now]
    /\ UNCHANGED <<session_length_s, logVars>>
    /\ SchedFrame

\* SessionManager.log_run
LogRun ==
    /\ total_runs_today < MaxLoggedRuns
    /\ runs_this_session' = runs_this_session + 1
    /\ total_runs_today' = total_runs_today + 1
    /\ \E duration \in RunDurations, items \in ItemLists :
         run_log' = Append(run_log,
                      RunData(now, total_runs_today + 1, runs_this_session + 1,
                              duration, items))
    /\ slast' = [slast EXCEPT !.op = "log_run", !.ret = FALSE, !.at = now,
                               !.io = << >>, !.exc = "none"]
    /\ UNCHANGED <<session_start, session_length_s, total_play_time_today,
                   day_file>>
    /\ SchedFrame

\* the `existing` of save_log: the array of the file when the file is there,
\* can be read and parses, the empty list otherwise
Existing(file, readOk) ==
    IF file = None \/ ~readOk THEN << >>
    ELSE LET text == file[1]
             loaded == IF text # << >> /\ text[1] = Punct("[")
                       THEN LoadRuns(text, 2, << >>) ELSE None
         IN IF loaded = None THEN << >> ELSE loaded[1]

\* SessionManager.save_log; the read of the file raises IOError or not, the
\* write succeeds ("ok"), fails at open ("open") or fails while the text is
\* written ("dump")
SaveLog ==
    /\ IF run_log = << >>
       THEN /\ slast' = [slast EXCEPT !.op = "save_log", !.ret = FALSE,
                                     !.at = now, !.io = << >>, !.exc = "none"]
            /\ UNCHANGED <<run_log, day_file>>
       ELSE \E readOk \in BOOLEAN, write \in {"ok", "open", "dump"} :
              \E text \in {DumpRuns(<<Punct("[")>>,
                                    Existing(day_file, readOk) \o run_log)} :
                /\ day_file # None \/ readOk
                /\ day_file' = CASE write = "ok" -> <<text>>
                                 [] write = "open" -> day_file
                                 [] write = "dump" ->
                                      <<SubSeq(text, 1, Len(text) - 1)>>
                /\ run_log' = IF write = "ok" THEN << >> ELSE run_log
                /\ slast' = [slast EXCEPT
                               !.op = "save_log", !.ret = FALSE, !.at = now,
                               !.io = (IF day_file # None THEN <<"read">>
                                       ELSE << >>) \o <<"write">>,
                               !.exc = IF write = "ok" THEN "none"
                                       ELSE "OSError"]
    /\ UNCHANGED <<session_start, session_length_s, total_play_time_today,
                   runs_this_session, total_runs_today>>
    /\ SchedFrame

\* a call of one of the three queries
Query(op, value) ==
    /\ slast' = [slast EXCEPT !.op = op, !.ret = value, !.at = now]
    /\ UNCHANGED <<session_start, session_length_s, total_play_time_today,
                   logVars>>
    /\ SchedFrame

---------------------------------------------------------------------------
(* The relay on a serial line whose device answers every command line *)

WireFrame ==
    UNCHANGED <<arduino, swInstalled, swMouse, pos, last, now, timerVars,
                schedVars, calc>>

\* connect() without a transport error: reset_input_buffer empties the input
\* buffer
WireConnect ==
    /\ serial' = "open"
    /\ connected' = ConnectedAfterConnect(connected, "none")
    /\ wire' = [wire EXCEPT !.rx = << >>, !.op = "connect", !.id = 0,
                            !.took = 0, !.answer = << >>, !.ret = "True"]
    /\ WireFrame

\* _send(command, wait_ack) without a transport error: the line is written,
\* the device queues its `answer` behind the lines not yet read, and with
\* wait_ack readline() takes the oldest unread line.  id numbers the command
\* lines written; took is the number of the command whose answer was read.
WireSend(op, wait_ack, answer) ==
    /\ wire.n < MaxCommands
    /\ ~SendRefuses(connected, serial)
    /\ \E rx \in {Append(wire.rx, [for |-> wire.n + 1, line |-> answer])} :
         \E out \in {SendOutcome(connected, serial, wait_ack, "none",
                                  Head(rx).line)} :
            /\ connected' = out.connected
            /\ wire' = [rx |-> IF wait_ack THEN Tail(rx) ELSE rx,
                        n |-> wire.n + 1, op |-> op, id |-> wire.n + 1,
                        took |-> IF wait_ack THEN Head(rx).for ELSE 0,
                        answer |-> answer, ret |-> out.ret]
    /\ UNCHANGED serial
    /\ WireFrame

\* mouse_move_relative(dx, dy): wait_ack is False
WireMouseMove == \E answer \in {LineOK} : WireSend("mouse_move", FALSE, answer)

\* mouse_click, mouse_down, mouse_up, key_press, ...: wait_ack is True
WireCommand == \E answer \in {LineOK, LineERR} : WireSend("command", TRUE, answer)

---------------------------------------------------------------------------
(* Functions applied to drawn arguments *)

\* a function is applied once, in a fresh process: its result does not depend
\* on earlier calls
CalcFrame ==
    /\ calc.op = "init"
    /\ UNCHANGED <<inputVars, now, timerVars, schedVars, wire>>

\* configured avg_session_minutes and avg_break_minutes, and the draws of
\* random.gauss, in minutes
SessionMeans == {10, 20, 150}
BreakMeans == {1, 25}
GaussDraws == {-5, 3, 40, 100, 400}

\* the two lengths SessionManager.__init__ samples, in units of the clock
SampleLengths ==
    /\ CalcFrame
    /\ \E avg \in SessionMeans, avgBreak \in BreakMeans,
          sdraw \in GaussDraws, bdraw \in GaussDraws :
         calc' = [op |-> "lengths", avg |-> avg, avgBreak |-> avgBreak,
                  session_length_s |-> Seconds(SessionMinutes(avg, sdraw) * 60),
                  break_length_s |-> Seconds(BreakMinutes(avgBreak, bdraw) * 60)]

\* the end points of the curves, and the places the noise puts a sample at
CurveEnds == {<<0, 0>>, <<2, 4>>, <<3, 4>>, <<255, 150>>, <<600, 0>>}
CurveNoise == {<<1, -2>>, <<255, 150>>, <<301, 7>>}

\* Humanizer.bezier_points(start, end): the loop takes num_points + 1 noisy
\* samples, here alternating between two places
BezierCall ==
    /\ CalcFrame
    /\ \E start \in CurveEnds, end \in CurveEnds, a \in CurveNoise,
          b \in CurveNoise :
         calc' = [op |-> "bezier", start |-> start, end |-> end,
                  points |-> BezierPoints(start, end,
                               [i \in 1..(NumPoints(start, end) + 1) |->
                                  IF i % 2 = 1 THEN a ELSE b])]

\* (a duration whose cap is applied before the speed factor)
MoveDurationCapFirst(dist, factor) ==
    (Min(500000, Max(50000, dist * 400)) * factor) \div 10

\* the `duration` of _move_arduino in microseconds, for a distance in pixels
\* and a drawn speed factor in tenths:
\* min(0.5, max(0.05, dist * 0.0004) * factor)
MoveDuration(dist, factor) ==
    Min(500000, (Max(50000, dist * 400) * factor) \div 10)

\* distances of a move along the x axis, and the draws of
\* random.uniform(delay_factor[0], delay_factor[1]) in tenths
MoveDistances == {0, 3, 100, 600, 1500, 2000}
SpeedFactors == {4, 5, 6, 15}

\* the timing of _move_arduino for a move from (0, 0) to (dist, 0):
\* step_delay = duration / max(len(points), 1), kept as the fraction
\* step[1] / step[2], and one sleep of step_delay per point of the curve
MoveTiming ==
    /\ CalcFrame
    /\ \E dist \in MoveDistances, factor \in SpeedFactors :
         \E points \in {BezierPoints(<<0, 0>>, <<dist, 0>>,
                            [i \in 1..(NumPoints(<<0, 0>>, <<dist, 0>>) + 1)
                               |-> <<dist, 0>>])} :
            calc' = [op |-> "move_timing", dist |-> dist, factor |-> factor,
                     points |-> Len(points),
                     num_points |-> NumPoints(<<0, 0>>, <<dist, 0>>),
                     duration |-> MoveDuration(dist, factor),
                     step |-> <<MoveDuration(dist, factor),
                                Max(Len(points), 1)>>,
                     slept |-> (Len(points) * MoveDuration(dist, factor))
                                 \div Max(Len(points), 1)]

\* the jitter of mouse.move for a `randomize` argument: the offsets the two
\* draws of random.randrange can produce
JitterCall ==
    /\ CalcFrame
    /\ \E rz \in RandomizeArgs \cup {[kind |-> "int", rx |-> 2, ry |-> 2],
                                     [kind |-> "tuple", rx |-> 2, ry |-> 1],
                                     [kind |-> "tuple", rx |-> 0, ry |-> 2]} :
         calc' = [op |-> "jitter", randomize |-> rz,
                  offsets |-> JitterOffsets(rz)]

\* the "phases" of the records of the logs given to the outlier pass
PhaseMaps ==
    {<<[k |-> PhaseCombat, v |-> 1], [k |-> PhaseHidden, v |-> 1]>>,
     <<[k |-> PhaseCombat, v |-> 1], [k |-> PhaseHidden, v |-> 2]>>,
     <<[k |-> PhaseCombat, v |-> 5], [k |-> PhaseHidden, v |-> 5]>>,
     <<[k |-> PhaseHidden, v |-> 5], [k |-> PhaseCombat, v |-> 5]>>,
     <<[k |-> PhaseCombat, v |-> 1]>>}

\* --outlier: 1.5, 1.75 and the default 2.5
Thresholds == {<<3, 2>>, <<7, 4>>, <<5, 2>>}

\* the line of a log for a record with the given phases
LogLine(t, phases) == JsonDumps([ts |-> t, phases |-> phases, total |-> 60])

\* main on a log of well-formed records, with --outlier
MainOutliers ==
    /\ CalcFrame
    /\ \E n \in 4..MaxRecords, thr \in Thresholds :
         \E maps \in [1..n -> PhaseMaps] :
            calc' = [op |-> "outliers", thr |-> thr,
                     res |-> Main([i \in 1..n |-> LogLine(i, maps[i])],
                                  None, thr)]

\* the lines of a log: a blank line, a line cut short, two records and a line
\* that holds a number
LogLines ==
    {<< >>, TornLine, LogLine(1, << >>),
     LogLine(2, <<[k |-> PhaseCombat, v |-> 1]>>), <<Num(5)>>}

\* main on a log of mixed lines, with or without --last
MainOnLog ==
    /\ CalcFrame
    /\ \E n \in 0..MaxLines :
         \E lines \in [1..n -> LogLines],
            last_n \in {None} \cup {<<m>> : m \in 0..(MaxLines + 1)} :
            calc' = [op |-> "log", lines |-> lines, last_n |-> last_n,
                     res |-> Main(lines, last_n, <<5, 2>>)]

\* percentile on a sorted list, for p = 0, 1/4, 1/2, 9/10 and 1
PercentileCall ==
    /\ CalcFrame
    /\ \E n \in 0..MaxVals :
         \E vals \in {s \in [1..n -> 1..3] :
                         \A i \in 1..(n - 1) : s[i] <= s[i + 1]},
            p \in {<<0, 1>>, <<1, 4>>, <<1, 2>>, <<9, 10>>, <<1, 1>>} :
            calc' = [op |-> "percentile", vals |-> vals, p |-> p,
                     out |-> Percentile(vals, p)]

---------------------------------------------------------------------------
(* Specifications *)

\* the serial line before connect: no unread line in the input buffer, no
\* command line written; and the analyzer before any call
NoWire ==
    [rx |-> << >>, n |-> 0, op |-> "init", id |-> 0, took |-> 0,
     answer |-> << >>, ret |-> "None"]
NoCalc == [op |-> "init"]

\* the relay and the mouse surface after import
InitInput ==
    /\ connected = FALSE
    /\ serial = "none"
    /\ arduino = "none"
    /\ swInstalled \in BOOLEAN
    /\ swMouse = FALSE
    /\ pos = <<0, 0>>
    /\ last = NoCall

\* time.time() is a positive number of seconds since the epoch
InitClock == now = 4

\* RunTimer.__init__, the log as `earlier` processes left it
InitTimer(earlier) ==
    /\ active = << >>
    /\ current_run = << >>
    /\ history = [k \in Keys |-> << >>]
    /\ run_start = None
    /\ phase_order = << >>
    /\ timing_log = earlier
    /\ tlast = NoTimerCall

\* SessionManager.__init__, its session length sampled from `minutes`
InitSched(minutes, file) ==
    /\ session_start = None
    /\ session_length_s = GaussianSessionLength(minutes)
    /\ total_play_time_today = 0
    /\ runs_this_session = 0
    /\ total_runs_today = 0
    /\ run_log = << >>
    /\ day_file = file
    /\ slast = NoSchedCall

\* the serial line and the analyzer before any call
InitTools ==
    /\ wire = NoWire
    /\ calc = NoCalc

Init ==
    /\ InitInput
    /\ InitClock
    /\ InitTimer(<< >>)
    /\ InitSched(AvgSessionMinutes, None)
    /\ InitTools

InputFrame == UNCHANGED <<now, timerVars, schedVars, toolVars>>

\* the run log of the scheduler; the day's file is absent, holds the array
\* of an earlier process or holds a text cut short
EarlierRun == RunData(2, 1, 1, 250000, << >>)
EarlierText == DumpRuns(<<Punct("[")>>, <<EarlierRun>>)
DayFiles ==
    {None, <<EarlierText>>, <<SubSeq(EarlierText, 1, Len(EarlierText) - 1)>>}

InitRunLog ==
    /\ InitInput
    /\ swInstalled
    /\ InitClock
    /\ InitTimer(<< >>)
    /\ \E file \in DayFiles : InitSched(AvgSessionMinutes, file)
    /\ InitTools

NextRunLog ==
    \/ StartSession
    \/ LogRun
    \/ SaveLog

SpecRunLog == InitRunLog /\ [][NextRunLog]_vars

\* a machine on which nothing has been called yet
InitIdle ==
    /\ InitInput
    /\ swInstalled
    /\ InitClock
    /\ InitTimer(<< >>)
    /\ InitSched(AvgSessionMinutes, None)
    /\ InitTools

\* the functions of the scheduler, of the humanizer and of the analyzer, each
\* applied to arguments drawn from small sets
NextCalc ==
    \/ SampleLengths
    \/ BezierCall
    \/ MainOutliers
    \/ MainOnLog
    \/ PercentileCall
    \/ MoveTiming
    \/ JitterCall

SpecCalc == InitIdle /\ [][NextCalc]_vars

\* the relay on a serial line whose device answers every command line
NextWire ==
    \/ WireConnect
    \/ WireMouseMove
    \/ WireCommand

SpecWire == InitIdle /\ [][NextWire]_vars

\* the keys held through the relay
NextKeys ==
    \/ Connect /\ InputFrame
    \/ KeyHold("key_down", "KEY_DOWN", MouseResponses) /\ InputFrame
    \/ KeyHold("key_up", "KEY_UP", MouseResponses) /\ InputFrame

SpecKeys == Init /\ [][NextKeys]_vars

\* the whole input machine
Next ==
    \/ Connect /\ InputFrame
    \/ Disconnect(MouseResponses) /\ InputFrame
    \/ Send(MouseResponses) /\ InputFrame
    \/ InitializeArduino /\ InputFrame
    \/ Move /\ InputFrame
    \/ Click(MouseResponses) /\ InputFrame
    \/ Press(MouseResponses) /\ InputFrame
    \/ Release(MouseResponses) /\ InputFrame

Spec == Init /\ [][Next]_vars

\* the relay alone, with every kind of response line
NextRelay ==
    \/ Connect /\ InputFrame
    \/ Disconnect(Responses) /\ InputFrame
    \/ Send(Responses) /\ InputFrame

SpecRelay == Init /\ [][NextRelay]_vars

\* the run timer, on a machine whose input surface is idle
InitRunTimer ==
    /\ InitInput
    /\ swInstalled
    /\ InitClock
    /\ InitTimer(EarlierLog)
    /\ InitSched(AvgSessionMinutes, None)
    /\ InitTools

NextTimer ==
    \/ Tick(TimerAdvances, MaxTimerClock)
    \/ StartRun
    \/ Start
    \/ Stop
    \/ EndRun

SpecTimer == InitRunTimer /\ [][NextTimer]_vars

\* the session scheduler, on a machine whose input surface and timer are idle
InitScheduler ==
    /\ InitInput
    /\ swInstalled
    /\ InitClock
    /\ InitTimer(<< >>)
    /\ \E minutes \in SessionDraws : InitSched(minutes, None)
    /\ InitTools

NextSched ==
    \/ Tick(SchedAdvances, 4 + MaxQuarters * Minutes(15))
    \/ StartSession
    \/ EndSession
    \/ Query("should_take_break", ShouldTakeBreak)
    \/ Query("should_stop_for_day", ShouldStopForDay)
    \/ Query("should_continue_running", ShouldContinueRunning)

SpecSched == InitScheduler /\ [][NextSched]_vars

---------------------------------------------------------------------------
(* Properties of the relay *)

\* the last call was _send, issued in the given connection state
SentWhile(conn) == last.op = "send" /\ last.preConnected = conn

\* C1: a send issued while the relay is Disconnected (never connected,
\* disconnected, or demoted by a failure) returns failure, for any command and
\* either value of wait_ack, and makes no transport call (write, flush, read).
C1_SendWhileDisconnected ==
    SentWhile(FALSE) =>
        /\ last.ret = "False"
        /\ last.raised = "none"
        /\ last.io = << >>
        /\ ~connected

\* a send refused by the flag alone: the port is still open after a demotion
C1_Witness ==
    /\ SentWhile(FALSE)
    /\ last.preSerial = "open"
    /\ ~last.ack

\* C2: a transport error during send leaves the relay Disconnected and returns
\* failure; the relay becomes Connected only by a successful connect, and
\* Disconnected only by disconnect, a failed connect or a transport error, so
\* that it stays Disconnected across sends until a connect succeeds.
C2_ConnectionTransitions ==
    /\ []((last.op = "send" /\ last.fail # "none")
            => (~connected /\ last.ret = "False" /\ last.raised = "none"))
    /\ [][(~connected /\ connected')
            => (last'.op = "connect" /\ last'.ret = "True")]_vars
    /\ [][(connected /\ ~connected')
            => \/ last'.op = "disconnect"
               \/ last'.op = "connect" /\ last'.ret = "False"
               \/ last'.op \notin {"connect", "disconnect"} /\ last'.fail # "none"]_vars

\* a connected relay demoted by a transport error while reading the answer
C2_Witness ==
    /\ SentWhile(TRUE)
    /\ last.fail = "read"
    /\ ~connected

\* the text of a line: its bytes without the surrounding white space
C3_Text(line) == Strip(line)

\* what the response grammar makes of a line
C3_Expected(line) ==
    IF C3_Text(line) = TextOK THEN "True"
    ELSE IF C3_Text(line) = TextSAFETY THEN "False"
    ELSE IF StartsWith(C3_Text(line), TextERR) THEN "False"
    ELSE "True"

\* C3: an acknowledged send on a Connected relay returns what the response line
\* says (OK: success, SAFETY: failure, ERR...: failure, anything else, the
\* empty line included: success); an unacknowledged send reads nothing and
\* returns success.
C3_ResultFromResponse ==
    (SentWhile(TRUE) /\ last.fail = "none") =>
        /\ last.raised = "none"
        /\ last.ret = IF last.ack THEN C3_Expected(last.resp) ELSE "True"
        /\ ~last.ack => last.io = <<"write", "flush">>

\* the last call was an acknowledged send that read a line other than OK
AnsweredNotOk ==
    /\ SentWhile(TRUE)
    /\ last.ack
    /\ last.fail = "none"
    /\ Strip(last.resp) # TextOK

\* C4: a send answered by SAFETY, ERR..., or an unrecognised or empty line
\* leaves the relay Connected with its port open, and the send that follows
\* is written to the port.
C4_ProtocolFailureKeepsConnection ==
    /\ [](AnsweredNotOk => (connected /\ serial = "open"))
    /\ [][(AnsweredNotOk /\ last'.op = "send")
            => (last'.io # << >> /\ last'.io[1] = "write")]_vars

\* a send that failed on the device's SAFETY answer, the relay still Connected
C4_Witness ==
    /\ AnsweredNotOk
    /\ last.resp = LineSAFETY
    /\ last.ret = "False"
    /\ connected

\* C5: after disconnect() the relay is Disconnected and the port is closed,
\* whatever happened to the PING probe, and disconnect() raises nothing.
C5_DisconnectCloses ==
    last.op = "disconnect" =>
        /\ ~connected
        /\ serial # "open"
        /\ last.raised = "none"

\* C6: connect() raises nothing; a transport failure while opening or flushing
\* the port leaves the relay Disconnected and returns failure; the relay is
\* Connected only after open, the settle sleep and the input flush, in order.
C6_ConnectNeverRaises ==
    last.op = "connect" =>
        /\ last.raised = "none"
        /\ last.fail # "none" => (~connected /\ last.ret = "False")
        /\ connected =>
             /\ last.ret = "True"
             /\ serial = "open"
             /\ last.steps = <<"open", "sleep", "reset_input_buffer", "connected">>

\* a connect that fails on a relay that was Connected
C6_Witness ==
    /\ last.op = "connect"
    /\ last.preConnected
    /\ last.fail = "reset_input_buffer"

---------------------------------------------------------------------------
(* Properties of the mouse surface *)

RECURSIVE SumA(_)
SumA(cmds) == IF cmds = << >> THEN 0 ELSE Head(cmds).a + SumA(Tail(cmds))

RECURSIVE SumB(_)
SumB(cmds) == IF cmds = << >> THEN 0 ELSE Head(cmds).b + SumB(Tail(cmds))

\* C7: in a relay move, the MOUSE_MOVE commands issued for each consecutive
\* pair of curve points have both components in [-127, 127] and add up, per
\* component, to the delta of the pair.
C7_StepsClampedAndExact ==
    last.op = "move" =>
        \A i \in 1..Len(last.pairs) :
            /\ \A n \in 1..Len(last.pairs[i].cmds) :
                 /\ last.pairs[i].cmds[n].tag = "MOUSE_MOVE"
                 /\ last.pairs[i].cmds[n].a \in -127..127
                 /\ last.pairs[i].cmds[n].b \in -127..127
            /\ SumA(last.pairs[i].cmds) = last.pairs[i].d[1]
            /\ SumB(last.pairs[i].cmds) = last.pairs[i].d[2]

\* a move with a delta that takes three commands, unequal on the two axes
C7_Witness ==
    /\ last.op = "move"
    /\ \E i \in 1..Len(last.pairs) :
         /\ Len(last.pairs[i].cmds) = 3
         /\ Abs(last.pairs[i].d[1]) # Abs(last.pairs[i].d[2])

\* the last call was a left click or press with the panel open and the
\* pointer inside a forbidden area
LeftInForbidden ==
    /\ last.op \in {"click", "press"}
    /\ last.button = "left"
    /\ last.invOpen
    /\ last.forbidden

\* the calls made to the software library's click or press
SoftwareClicks == {i \in 1..Len(last.sw) : last.sw[i] \in {"click", "press"}}

\* C8: a left click or press with the inventory panel detected open and the
\* pointer inside the equipped or the restricted area sends no command to the
\* relay and calls neither click nor press of the software library.
C8_InterlockRefuses ==
    LeftInForbidden =>
        /\ last.issued = << >>
        /\ last.io = << >>
        /\ SoftwareClicks = {}

\* the relay was connected and would have carried the click
C8_Witness ==
    /\ LeftInForbidden
    /\ last.op = "click"
    /\ last.preConnected
    /\ arduino = "hid"

\* the last call is one the interlock does not apply to
NotInterlocked ==
    \/ last.op \in {"click", "press"} /\ last.button # "left"
    \/ last.op = "release"

\* the last call reached a backend
Forwarded ==
    \/ last.issued # << >>
    \/ \E i \in 1..Len(last.sw) : last.sw[i] = last.op

\* C9 as stated: click and press with a button other than left, and release
\* with any button, never query the UI-state collaborator and are always
\* forwarded to a backend.
C9_AlwaysForwarded ==
    NotInterlocked => (last.ui = 0 /\ Forwarded)

\* C9 as amended: those calls never query the UI-state collaborator and go to
\* the relay when it is connected, else to the software library when it could
\* be loaded; with neither backend the call does nothing.
C9_NeverInterlocked ==
    NotInterlocked =>
        /\ last.ui = 0
        /\ last.outcome # "refused"
        /\ (arduino = "hid" /\ last.preConnected)
             => (Len(last.issued) = 1 /\ last.sw = << >>)
        /\ (~(arduino = "hid" /\ last.preConnected) /\ swMouse)
             => (last.sw = <<last.op>> /\ last.issued = << >>)
        /\ (~(arduino = "hid" /\ last.preConnected) /\ ~swMouse)
             => (last.sw = << >> /\ last.issued = << >>)

\* a right click sent to the relay with the panel open and the pointer inside
\* a forbidden area
C9_Witness ==
    /\ last.op = "click"
    /\ last.button = "right"
    /\ last.invOpen
    /\ last.forbidden
    /\ Len(last.issued) = 1

MouseOps == {"move", "click", "press", "release"}

\* C10: a mouse call refused by the interlock, or whose relay send failed,
\* returns a value other than the one the same operation returns when it is
\* performed.
C10_ReturnTellsOutcome ==
    [][(/\ last.op \in MouseOps
        /\ last.outcome = "performed"
        /\ last'.op = last.op
        /\ last'.outcome \in {"refused", "send_failed"})
          => last'.ret # last.ret]_vars

\* the last call is a mouse call that the interlock did not refuse
Routed == last.op \in MouseOps /\ last.outcome # "refused"

\* the router had a relay and it was Connected when the call was made
ViaRelay == arduino = "hid" /\ last.preConnected

\* the calls the last call made to the software library's operation
SwOpCalls == {i \in 1..Len(last.sw) : last.sw[i] = last.op}

\* what a call routed to the relay does: relay commands only (one for a click,
\* press or release), a click holding for at least 30 ms
RelayDelivery ==
    /\ SwOpCalls = {}
    /\ last.op # "move" => Len(last.issued) = 1
    /\ last.op = "move"
         => \A i \in 1..Len(last.issued) : last.issued[i].tag = "MOUSE_MOVE"
    /\ last.op = "click" => last.issued[1].b >= 30

\* what a call routed to the software library does: no relay command and one
\* call of the library, a move with the jittered absolute target
SoftwareDelivery ==
    /\ last.issued = << >>
    /\ last.io = << >>
    /\ Cardinality(SwOpCalls) = 1
    /\ last.op = "move" => last.swTarget = last.target

\* C11 as stated: every move, and every click, press or release that is not
\* refused, goes to exactly one backend: to the relay if and only if it is
\* Connected at the time of the call, otherwise to the software fallback.
C11_ExactlyOneBackend ==
    Routed => IF ViaRelay THEN RelayDelivery ELSE SoftwareDelivery

\* C11 as amended: such a call goes to the relay if and only if the router has
\* a relay that is Connected at the time of the call; otherwise it makes one
\* call of the software library when that library could be loaded (a move
\* with the final jittered absolute coordinates) and no call at all when it
\* could not; it emits no relay command in either of the latter cases, and a
\* relay click holds for at least 30 ms.
C11_BackendByConnection ==
    Routed =>
        IF ViaRelay THEN RelayDelivery
        ELSE IF swMouse THEN SoftwareDelivery
        ELSE last.issued = << >> /\ last.io = << >> /\ last.sw = << >>

\* a jittered move handed to the software library while a relay is registered
\* but not Connected
C11_Witness ==
    /\ last.op = "move"
    /\ arduino = "hid"
    /\ ~last.preConnected
    /\ last.target = <<254, 149>>
    /\ last.swTarget = <<254, 149>>
    /\ Cardinality(SwOpCalls) = 1

---------------------------------------------------------------------------
(* Properties of the run timer *)

\* the step is a call of the timer's operation `op` (the clock does not move
\* during a call)
TimerCall(op) == tlast'.op = op /\ now' = now

\* the fields of the timer that a call may change
timerState ==
    <<active, current_run, history, run_start, phase_order, timing_log>>

\* C12: stop(phase) for a phase with no pending start returns 0 and changes
\* nothing: the current-run totals, the first-seen order, the pending starts,
\* the history, the run start and the log are what they were.
C12_IdleStopChangesNothing ==
    [][(TimerCall("stop") /\ tlast'.phase \notin DOMAIN active)
         => (tlast'.ret = 0 /\ UNCHANGED timerState)]_vars

\* a stop with no pending start, of a phase already stopped in the active run
C12_Witness ==
    /\ tlast.op = "stop"
    /\ ~tlast.pending
    /\ tlast.ret = 0
    /\ run_start # None
    /\ Has(current_run, tlast.phase)
    /\ Get(current_run, tlast.phase, 0) > 0

\* C13: the log is append-only with one record per completed run: it changes
\* only by an end_run made while a run is active, which appends one line after
\* the earlier content when the write succeeds; an end_run with no active run
\* appends nothing and changes no timer state.
C13_LogAppendOnly ==
    /\ [](/\ Len(timing_log) >= Len(EarlierLog)
          /\ SubSeq(timing_log, 1, Len(EarlierLog)) = EarlierLog
          /\ Len(timing_log) - Len(EarlierLog) <= Len(history[TotalKey]))
    /\ [][timing_log' # timing_log
            => (TimerCall("end_run") /\ run_start # None)]_vars
    /\ [][(TimerCall("end_run") /\ run_start # None /\ tlast'.wrote)
            => /\ Len(timing_log') = Len(timing_log) + 1
               /\ SubSeq(timing_log', 1, Len(timing_log)) = timing_log
               /\ ~Malformed(timing_log'[Len(timing_log')])]_vars
    /\ [][(TimerCall("end_run") /\ run_start = None)
            => UNCHANGED timerState]_vars

\* an end_run with no active run, after a run whose record was appended
C13_Witness ==
    /\ tlast.op = "end_run"
    /\ ~tlast.ran
    /\ Len(timing_log) = Len(EarlierLog) + 1
    /\ Len(LoadRecords(timing_log)) = 1

\* C14: within a run the cumulative total of a phase is the sum of the
\* durations its stop calls returned: totals start empty at start_run, each
\* stop adds what it returns and nothing else changes them; a phase may be
\* started and stopped again; a start sets the begin time to the time of the
\* call, replacing that of a pending start, and a stop returns the time since
\* that begin time.
C14_CumulativeTotals ==
    /\ [][TimerCall("start_run") => current_run' = << >>]_vars
    /\ [][TimerCall("stop")
            => /\ Get(current_run', tlast'.phase, 0)
                    = Get(current_run, tlast'.phase, 0) + tlast'.ret
               /\ \A p \in Phases \ {tlast'.phase} :
                    /\ Has(current_run', p) = Has(current_run, p)
                    /\ Get(current_run', p, 0) = Get(current_run, p, 0)]_vars
    /\ [][current_run' # current_run
            => (TimerCall("start_run") \/ TimerCall("stop")
                  \/ TimerCall("end_run"))]_vars
    /\ [][TimerCall("start")
            => (tlast'.phase \in DOMAIN active' /\ active'[tlast'.phase] = now)]_vars
    /\ [][(TimerCall("stop") /\ tlast'.phase \in DOMAIN active)
            => tlast'.ret = now - active[tlast'.phase]]_vars

\* the second stop of a phase in one run: the total is the sum of the two
\* durations
C14_Witness ==
    /\ tlast.op = "stop"
    /\ tlast.pending
    /\ tlast.ret = 4
    /\ run_start # None
    /\ Get(current_run, tlast.phase, 0) = 8

\* the history after the totals of a run are folded into it
C15_Folded(h, cr) ==
    [k \in Keys |->
       IF \E i \in 1..Len(cr) : cr[i].k = k
       THEN h[k] \o <<cr[CHOOSE i \in 1..Len(cr) : cr[i].k = k].v>>
       ELSE h[k]]

\* C15: start_run called while a run is active appends every accumulated
\* phase total of that run to the in-memory history, and leaves the current-run
\* totals, the pending starts and the phase order empty and the run start at
\* the time of the call.
C15_StartRunFlushesFirst ==
    [][(TimerCall("start_run") /\ run_start # None)
         => /\ history' = C15_Folded(history, current_run)
            /\ current_run' = << >>
            /\ active' = << >>
            /\ phase_order' = << >>
            /\ run_start' = <<now>>]_vars

\* a start_run that found a run active and folded a phase total of it into the
\* history, no run having been ended before
C15_Witness ==
    /\ tlast.op = "start_run"
    /\ tlast.ran
    /\ history[TotalKey] = << >>
    /\ history[PhaseCombat] = <<4>>
    /\ current_run = << >>

\* the record loaded from the last line of the log
LastLoaded == LoadRecords(timing_log)[Len(LoadRecords(timing_log))]

\* C16 as stated: start_run followed by end_run with no start or stop between
\* them appends exactly one record, with an empty phase mapping and a
\* non-negative total.
C16_EmptyRunPersisted ==
    [][(tlast.op = "start_run" /\ TimerCall("end_run"))
         => /\ Len(timing_log') = Len(timing_log) + 1
            /\ SubSeq(timing_log', 1, Len(timing_log)) = timing_log
            /\ LastLoaded'.phases = << >>
            /\ LastLoaded'.total >= 0]_vars

\* C16 as amended: when the write succeeds, that end_run appends exactly one
\* record, with an empty phase mapping and a non-negative total; when the write
\* fails it appends nothing; either way it raises nothing and closes the run.
C16_EmptyRunPersistedIfWritten ==
    [][(tlast.op = "start_run" /\ TimerCall("end_run"))
         => /\ run_start' = None
            /\ IF tlast'.wrote
               THEN /\ Len(timing_log') = Len(timing_log) + 1
                    /\ SubSeq(timing_log', 1, Len(timing_log)) = timing_log
                    /\ LastLoaded'.phases = << >>
                    /\ LastLoaded'.total >= 0
               ELSE timing_log' = timing_log]_vars

\* the record of a run that lasted 0.8 ms in which no phase was started or
\* stopped
C16_Witness ==
    /\ tlast.op = "end_run"
    /\ tlast.wrote
    /\ active = << >>
    /\ \A p \in Phases : history[p] = << >>
    /\ history[TotalKey] = <<8>>
    /\ LastLoaded.phases = << >>
    /\ LastLoaded.total = 10

\* r is v rounded to 3 decimals
C17_Rounded(v, r) == r % 10 = 0 /\ 2 * Abs(r - v) <= 10

\* C17 as stated: the record an end_run persists, loaded by load_records, has
\* for every phase of the run its cumulative duration rounded to 3 decimals,
\* no other phase, and the run's total rounded to 3 decimals.
C17_RoundTrip ==
    [][(TimerCall("end_run") /\ tlast'.wrote)
         => /\ \A p \in Phases :
                 Has(LastLoaded'.phases, p) = Has(current_run, p)
            /\ \A i \in 1..Len(LastLoaded'.phases) :
                 /\ LastLoaded'.phases[i].k \in Phases
                 /\ C17_Rounded(Get(current_run, LastLoaded'.phases[i].k, 0),
                                LastLoaded'.phases[i].v)
            /\ C17_Rounded(now - run_start[1], LastLoaded'.total)]_vars

\* C17 as amended: the loaded record has, for every phase of the run whose name
\* does not start with "_", its cumulative duration rounded to 3 decimals, no
\* other phase (a phase whose name starts with "_" is left out), and the run's
\* total rounded to 3 decimals.
C17_RoundTripOfVisiblePhases ==
    [][(TimerCall("end_run") /\ tlast'.wrote)
         => /\ \A p \in Phases :
                 Has(LastLoaded'.phases, p)
                   = (Has(current_run, p) /\ p[1] # "_")
            /\ \A i \in 1..Len(LastLoaded'.phases) :
                 /\ LastLoaded'.phases[i].k \in Phases
                 /\ C17_Rounded(Get(current_run, LastLoaded'.phases[i].k, 0),
                                LastLoaded'.phases[i].v)
            /\ C17_Rounded(now - run_start[1], LastLoaded'.total)]_vars

\* a loaded record whose phase lasted 0.4 ms and reads 0.000, of a run that
\* lasted 0.8 ms and reads 0.001, and that also timed a phase named "_dbg"
C17_Witness ==
    /\ tlast.op = "end_run"
    /\ tlast.wrote
    /\ history[PhaseCombat] = <<4>>
    /\ history[PhaseHidden] # << >>
    /\ history[TotalKey] = <<8>>
    /\ LastLoaded.phases = <<[k |-> PhaseCombat, v |-> 0]>>
    /\ LastLoaded.total = 10

---------------------------------------------------------------------------
(* Properties of the session scheduler *)

\* the time since the latest start_session is at least the length it sampled
SessionLengthReached ==
    /\ slast.started # << >>
    /\ now - slast.started[1] >= slast.started[2]

\* C18 as stated: should_take_break is false when no session has been started
\* and immediately after start_session, and true at every later instant at
\* which the time since start_session is at least the length it sampled.
C18_BreakWhenLengthReached ==
    /\ slast.started = << >> => ~ShouldTakeBreak
    /\ (slast.op = "start_session" /\ slast.at = now) => ~ShouldTakeBreak
    /\ SessionLengthReached => ShouldTakeBreak

\* C18 as amended: should_take_break is false when no session is open (none
\* started yet, or the latest one closed by end_session) and immediately after
\* start_session; while the session is open it is true exactly at the instants
\* at which the time since start_session is at least the length it sampled.
C18_BreakWhileSessionOpen ==
    /\ session_start = None => ~ShouldTakeBreak
    /\ (slast.op = "start_session" /\ slast.at = now) => ~ShouldTakeBreak
    /\ session_start # None
         => /\ slast.started = <<session_start[1], session_length_s>>
            /\ ShouldTakeBreak = SessionLengthReached

\* the query answers true at the very instant the sampled length (30 min) is
\* reached
C18_Witness ==
    /\ slast.op = "should_take_break"
    /\ slast.at = now
    /\ slast.ret
    /\ session_start # None
    /\ now - session_start[1] = session_length_s

\* the play time of the day: the closed sessions and the open one
C19_PlayTime ==
    total_play_time_today
      + (IF session_start # None THEN now - session_start[1] ELSE 0)

\* C19: should_stop_for_day is true exactly when total_play_time_today plus the
\* elapsed time of the open session (0 when none is open) is at least
\* max_daily_hours x 3600 seconds.
C19_StopForDay ==
    ShouldStopForDay = (C19_PlayTime >= Seconds(MaxDailyHours * 3600))

\* the limit is reached by a closed session together with the open one
C19_Witness ==
    /\ slast.op = "should_stop_for_day"
    /\ slast.at = now
    /\ slast.ret
    /\ session_start # None
    /\ total_play_time_today > 0
    /\ total_play_time_today < Seconds(MaxDailyHours * 3600)

\* C20: should_continue_running is true if and only if should_take_break and
\* should_stop_for_day are both false at that instant.
C20_ContinueIffNeither ==
    ShouldContinueRunning = (~ShouldTakeBreak /\ ~ShouldStopForDay)

\* the scheduler stops the loop for a break while the daily limit is not
\* reached
C20_Witness ==
    /\ slast.op = "should_continue_running"
    /\ slast.at = now
    /\ ~slast.ret
    /\ ShouldTakeBreak
    /\ ~ShouldStopForDay

---------------------------------------------------------------------------
(* Properties of the scheduler's accounting and of its run log *)

\* the step is a call of the SessionManager operation `op`
SchedCall(op) == slast'.op = op /\ now' = now

\* what the scheduler keeps, the record of the last call left out
schedState ==
    <<session_start, session_length_s, total_play_time_today, logVars>>

\* C21: end_session adds the elapsed time of the open session, which is never
\* negative, to total_play_time_today and clears session_start; end_session
\* with no open session changes nothing, so a second end_session in a row
\* adds nothing; no step decreases total_play_time_today.
C21_EndSessionAccounting ==
    [][/\ total_play_time_today' >= total_play_time_today
       /\ SchedCall("end_session") =>
            /\ session_start' = None
            /\ session_start # None =>
                 /\ now - session_start[1] >= 0
                 /\ total_play_time_today' =
                      total_play_time_today + (now - session_start[1])
                 /\ UNCHANGED <<session_length_s, logVars>>
            /\ session_start = None => UNCHANGED schedState
            /\ slast.op = "end_session" =>
                 total_play_time_today' = total_play_time_today]_vars

\* an end_session has closed a session that lasted, after an earlier one did
C21_Witness ==
    /\ slast.op = "end_session"
    /\ slast.at = now
    /\ session_start = None
    /\ total_play_time_today >= Minutes(30)

\* C22 (as stated): every sampled session length lies in [30 min, 2 x
\* avg_session_minutes] and every sampled break length in [5 min, 3 x
\* avg_break_minutes], for every configured mean and every draw.
C22_LengthsWithinConfiguredBounds ==
    calc.op = "lengths" =>
        /\ Minutes(30) <= calc.session_length_s
        /\ calc.session_length_s <= Minutes(2 * calc.avg)
        /\ Minutes(5) <= calc.break_length_s
        /\ calc.break_length_s <= Minutes(3 * calc.avgBreak)

\* C22 (amended): every sampled session length is at least 30 min and at most
\* max(30, 2 x avg_session_minutes) min, every sampled break length at least
\* 5 min and at most max(5, 3 x avg_break_minutes) min; a mean whose multiple
\* is below the lower bound makes every sample equal to the lower bound.
C22_LengthsClamped ==
    calc.op = "lengths" =>
        /\ Minutes(30) <= calc.session_length_s
        /\ calc.session_length_s <= Minutes(Max(30, 2 * calc.avg))
        /\ Minutes(5) <= calc.break_length_s
        /\ calc.break_length_s <= Minutes(Max(5, 3 * calc.avgBreak))
        /\ 2 * calc.avg < 30 => calc.session_length_s = Minutes(30)
        /\ 3 * calc.avgBreak < 5 => calc.break_length_s = Minutes(5)

\* a session capped at twice its mean and a break capped at three times its
\* mean have been sampled
C22_Witness ==
    /\ calc.op = "lengths"
    /\ calc.avg = 20
    /\ calc.session_length_s = Minutes(40)
    /\ calc.break_length_s = Minutes(75)

\* C23: log_run appends exactly one record to the buffer and adds one to
\* runs_this_session and to total_runs_today, the record carrying the new
\* values as session_run and run_number; start_session sets runs_this_session
\* to 0 and leaves total_runs_today and the buffer unchanged.
C23_LogRunCounts ==
    [][/\ SchedCall("log_run") =>
            /\ Len(run_log') = Len(run_log) + 1
            /\ SubSeq(run_log', 1, Len(run_log)) = run_log
            /\ runs_this_session' = runs_this_session + 1
            /\ total_runs_today' = total_runs_today + 1
            /\ run_log'[Len(run_log')].session_run = runs_this_session'
            /\ run_log'[Len(run_log')].run_number = total_runs_today'
       /\ SchedCall("start_session") =>
            /\ runs_this_session' = 0
            /\ UNCHANGED <<total_runs_today, run_log>>]_vars

\* a run has been logged in a session that follows another session with runs:
\* its number in the session is behind its number in the day
C23_Witness ==
    /\ slast.op = "log_run"
    /\ run_log # << >>
    /\ run_log[Len(run_log)].session_run = 1
    /\ run_log[Len(run_log)].run_number = 3
    /\ runs_this_session = 1
    /\ total_runs_today = 3

\* the array stored in the day's file: empty when the file is absent or its
\* text is not an array
Stored(file) == Existing(file, TRUE)

\* C24: a save_log that returns with a non-empty buffer leaves in the day's
\* file the array stored there before followed by the buffered records in
\* logging order, and empties the buffer; save_log with an empty buffer reads
\* and writes no file and changes nothing.
C24_SaveLogMerges ==
    [][SchedCall("save_log") /\ slast'.exc = "none" =>
         IF run_log # << >>
         THEN /\ Stored(day_file') = Stored(day_file) \o run_log
              /\ run_log' = << >>
         ELSE /\ slast'.io = << >>
              /\ UNCHANGED schedState]_vars

\* the squared distance between the end points of the last curve
CurveDistance2 ==
    (calc.end[1] - calc.start[1]) * (calc.end[1] - calc.start[1])
      + (calc.end[2] - calc.start[2]) * (calc.end[2] - calc.start[2])

\* C25: for integer end points at distance 5 or more the curve is not empty
\* and its last point is the target, whatever the samples; for a distance
\* below 5 the curve is the target alone.
C25_CurveEndsAtTarget ==
    calc.op = "bezier" =>
        IF CurveDistance2 >= 25
        THEN /\ calc.points # << >>
             /\ calc.points[Len(calc.points)] = calc.end
        ELSE calc.points = <<calc.end>>

\* a curve of more than one point whose noise would have ended elsewhere
C25_Witness ==
    /\ calc.op = "bezier"
    /\ CurveDistance2 >= 25
    /\ Len(calc.points) = 101
    /\ calc.points[Len(calc.points) - 2] # calc.end
    /\ calc.points[Len(calc.points)] = calc.end

---------------------------------------------------------------------------
(* Properties of the analyzer *)

\* the pair (run i, item it of its phases) is an outlier at threshold thr
IsOutlier(records, it, thr) ==
    /\ StdevPositive(PhaseStats(records, it.k))
    /\ ZAtLeast(ZScore(it.v, PhaseStats(records, it.k)), thr)

\* C26: with fewer than 5 records the analyzer reports insufficiency, lists no
\* outlier and prints neither the outlier nor the high-variance section; with
\* 5 or more it lists every (run, phase) whose phase has stdev > 0 and whose
\* z is at least the threshold, lists no other pair, and the outliers of one
\* run come in non-increasing z.
C26_OutliersReported ==
    calc.op = "outliers" =>
        LET recs == calc.res.analyzed
            listed == calc.res.out.outliers
        IN IF Len(recs) < 5
           THEN /\ calc.res.out.sections = <<"insufficient">>
                /\ listed = << >>
           ELSE /\ calc.res.out.sections[1] = "outliers"
                /\ \A i \in 1..Len(recs) : \A j \in 1..Len(recs[i].phases) :
                     IsOutlier(recs, recs[i].phases[j], calc.thr)
                       <=> \E m \in 1..Len(listed) :
                              /\ listed[m].run = i
                              /\ listed[m].phase = recs[i].phases[j].k
                /\ \A m \in 1..Len(listed) :
                     /\ listed[m].run \in 1..Len(recs)
                     /\ Has(recs[listed[m].run].phases, listed[m].phase)
                     /\ \A o \in (m + 1)..Len(listed) :
                          /\ listed[o].run >= listed[m].run
                          /\ listed[o].run = listed[m].run =>
                               /\ listed[o].phase # listed[m].phase
                               /\ ~ZLess(listed[m], listed[o])

\* a run with two outliers, listed against the order of its phases
C26_Witness ==
    /\ calc.op = "outliers"
    /\ Len(calc.res.analyzed) >= 5
    /\ \E m \in 1..(Len(calc.res.out.outliers) - 1) :
         LET a == calc.res.out.outliers[m]
             b == calc.res.out.outliers[m + 1]
         IN /\ a.run = b.run
            /\ ZLess(b, a)
            /\ calc.res.analyzed[a.run].phases[1].k = b.phase

\* the records of the well-formed lines, in file order
RECURSIVE WellFormed(_)
WellFormed(lines) ==
    IF lines = << >> THEN << >>
    ELSE (IF IsRecord(Head(lines)) THEN <<JsonLoads(Head(lines))>> ELSE << >>)
           \o WellFormed(Tail(lines))

\* C27: for any log the analysis does not abort; the records analyzed are the
\* well-formed lines in file order, every other line being skipped.
C27_MalformedLinesSkipped ==
    calc.op = "log" /\ calc.last_n = None =>
        /\ calc.res.out.exc = "none"
        /\ calc.res.analyzed = WellFormed(calc.lines)

\* C28: percentile on a non-empty ascending list returns the element at
\* index min(floor(count * p), count - 1), counted from 0; the median of a
\* list of even size is the upper of the two middle values, and p = 1 gives
\* the maximum.
C28_PercentileIndex ==
    calc.op = "percentile" /\ calc.vals # << >> =>
        LET count == Len(calc.vals)
        IN /\ \E idx \in 0..(count - 1) :
                /\ idx = Min((count * calc.p[1]) \div calc.p[2], count - 1)
                /\ calc.out = calc.vals[idx + 1]
           /\ calc.p = <<1, 2>> /\ count % 2 = 0 =>
                calc.out = calc.vals[count \div 2 + 1]
           /\ calc.p = <<1, 1>> => calc.out = calc.vals[count]

\* the median of a list of four values whose middle values differ
C28_Witness ==
    /\ calc.op = "percentile"
    /\ calc.p = <<1, 2>>
    /\ Len(calc.vals) = 4
    /\ calc.vals[2] < calc.vals[3]
    /\ calc.out = calc.vals[3]

\* C29: with --last N, N >= 0, the records analyzed are the most recent
\* min(N, count) of the count loaded records, in their order.
C29_LastNRecords ==
    calc.op = "log" /\ calc.last_n # None =>
        LET count == Len(calc.res.loaded)
            kept == Min(calc.last_n[1], count)
        IN calc.res.analyzed
             = SubSeq(calc.res.loaded, count - kept + 1, count)

---------------------------------------------------------------------------
(* Properties of the acknowledgments *)

\* C30: with a device that answers every command line, the line an
\* acknowledged send reads is the device's answer to that same command; the
\* answer to an earlier unacknowledged MOUSE_MOVE is never taken as the
\* acknowledgment of a later command.
C30_AckBelongsToCommand ==
    wire.op = "command" => wire.took = wire.id

---------------------------------------------------------------------------
(* Properties of the keys, the move and the interlock *)

\* C31: key_down and key_up for every key name of the special-key table,
\* called while Connected on a transport that does not fail, write one
\* KEY_DOWN / KEY_UP line, let no exception escape and leave the relay
\* Connected.
C31_SpecialKeysSent ==
    (/\ last.op \in {"key_down", "key_up"}
     /\ last.key \in SpecialNames
     /\ last.preConnected /\ last.preSerial = "open"
     /\ last.fail = "none" /\ Decodable(last.resp))
      => /\ last.raised = "none"
         /\ Len(last.issued) = 1
         /\ last.io = <<"write", "flush", "readline">>
         /\ connected

\* C32 (as stated): the time slept in a relay move is its duration,
\* duration = clamp(distance x 0.0004, 0.05, 0.5) x f, and the delay after
\* each curve point is duration / pointCount, pointCount the number of
\* parametric steps of the curve.
C32_TimingFromClampedDistance ==
    calc.op = "move_timing" =>
        /\ calc.duration
             = (Min(500000, Max(50000, calc.dist * 400)) * calc.factor) \div 10
        /\ calc.slept = calc.duration
        /\ calc.step = <<calc.duration, calc.num_points>>

\* C32 (amended): the time slept in a relay move is its duration,
\* duration = min(0.5, max(0.05, distance x 0.0004) x f), and the delay after
\* each curve point is duration / number of points of the curve (one more
\* than the parametric steps, or 1 for a curve of the target alone).
C32_TimingCappedAfterFactor ==
    calc.op = "move_timing" =>
        /\ calc.duration
             = Min(500000, (Max(50000, calc.dist * 400) * calc.factor) \div 10)
        /\ calc.slept = calc.duration
        /\ calc.step =
             <<calc.duration,
               IF calc.dist < 5 THEN 1 ELSE calc.num_points + 1>>

\* a long move whose duration is below the cap only after the speed factor
C32_Witness ==
    /\ calc.op = "move_timing"
    /\ calc.dist = 2000
    /\ calc.factor = 5
    /\ calc.duration = 400000
    /\ calc.points = 101

\* C33: with an integer jitter r > 0 the offset of each axis is drawn from
\* [-r, r], both ends possible; with a per-axis jitter (rx, ry) the x offset
\* is drawn from [-rx, rx] and the y offset from [-ry, ry], an axis with a
\* positive range being jittered whatever the range of the other axis.
C33_SymmetricIndependentJitter ==
    calc.op = "jitter" =>
        LET rz == calc.randomize
        IN IF rz.kind = "int"
           THEN rz.rx > 0 =>
                  calc.offsets = ((-rz.rx)..rz.rx) \X ((-rz.rx)..rz.rx)
           ELSE calc.offsets =
                  (IF rz.rx > 0 THEN (-rz.rx)..rz.rx ELSE {0})
                    \X (IF rz.ry > 0 THEN (-rz.ry)..rz.ry ELSE {0})

\* C34: whenever a MOUSE_CLICK or MOUSE_DOWN command with button code 1 is
\* handed to the relay, the interlock was evaluated for that call and passed:
\* no left-button event reaches the device while the inventory is open and
\* the pointer is in a forbidden region, whatever the button argument.
C34_LeftCodeOnlyAfterInterlock ==
    (/\ last.op \in {"click", "press"}
     /\ last.issued # << >>
     /\ last.issued[1].a = 1)
      => /\ last.ui = 1
         /\ ~(last.invOpen /\ last.forbidden)

\* the transport calls of a move: write and flush in turn
Alternates(io) ==
    \A i \in 1..Len(io) : io[i] = IF i % 2 = 1 THEN "write" ELSE "flush"

\* C35: the relay move completes: every pair of consecutive curve points
\* with delta (dx, dy) gets exactly ceil(max(|dx|, |dy|) / 127) MOUSE_MOVE
\* commands, none for a zero delta, and every command of the walk is handed
\* to _send; when the transport fails at the k-th send of the move the relay
\* is left Disconnected and the failing call is the last transport call of
\* the move: the sends after it do no transport I/O
C35_WalkCompletes ==
    last.op = "move" =>
        /\ \A i \in 1..Len(last.pairs) :
             Len(last.pairs[i].cmds) =
                 (Max(Abs(last.pairs[i].d[1]), Abs(last.pairs[i].d[2])) + 126)
                     \div 127
        /\ last.issued = Flatten(last.pairs)
        /\ Alternates(last.io)
        /\ last.fail = "none" /\ last.issued # << >> =>
             Len(last.io) = 2 * Len(last.issued)
        /\ last.fail # "none" =>
             /\ ~connected
             /\ last.failAt \in 1..Len(last.issued)
             /\ Len(last.io) = 2 * (last.failAt - 1)
                                 + (IF last.fail = "write" THEN 1 ELSE 2)

\* a move whose first send met a write error, with a delta of two commands
\* among its pairs and later commands that were never written
C35_Witness ==
    /\ last.op = "move"
    /\ last.fail = "write"
    /\ last.io = <<"write">>
    /\ Len(last.issued) >= 3
    /\ \E i \in 1..Len(last.pairs) : Len(last.pairs[i].cmds) = 2

---------------------------------------------------------------------------
(* Properties of the timer's pending starts and of its history *)

C37_PhaseTimeWithinRuns ==
    [][/\ (run_start = None /\ TimerCall("stop")) => current_run' = current_run
       /\ \A p \in Phases : Len(history'[p]) <= Len(history'[TotalKey])]_vars

---------------------------------------------------------------------------
(* Properties of the daily play time and of the run log *)

\* C38: total_play_time_today starts at 0 and changes only in an end_session
\* that closes an open session, by the elapsed time of that session, so it is
\* the sum of the elapsed times of the sessions end_session closed; a
\* start_session that finds a session open leaves the total as it is and
\* starts the new session at the time of the call, so after it
\* should_stop_for_day counts the closed sessions only
C38_ClosedSessionsOnly ==
    [][/\ slast.op = "init" => total_play_time_today = 0
       /\ total_play_time_today' =
            IF SchedCall("end_session") /\ session_start # None
            THEN total_play_time_today + (now - session_start[1])
            ELSE total_play_time_today
       /\ (SchedCall("start_session") /\ session_start # None) =>
            /\ session_start' = <<now>>
            /\ ShouldStopForDay'
                 = (total_play_time_today >= Seconds(MaxDailyHours * 3600))]_vars

\* a start_session that found a session open, three quarters of an hour after
\* the first call, none of which are in the total
C38_Witness ==
    /\ slast.op = "start_session"
    /\ slast.open
    /\ slast.at >= 4 + Minutes(45)
    /\ session_start = <<slast.at>>
    /\ total_play_time_today = 0

\* C39: once should_stop_for_day is true it is true after every later step
C39_StopForDayIsStable ==
    [][ShouldStopForDay => ShouldStopForDay']_vars

\* the records of the day's file followed by the records of the buffer
FileThenBuffer == Stored(day_file) \o run_log

\* C40: after every call the runs logged so far are the last records of the
\* day's file followed by the buffer, once each and in logging order with
\* run_number 1, 2, 3, ...; a save_log whose write fails leaves the buffer as
\* it is
C40_EveryRunOnce ==
    [][/\ (SchedCall("save_log") /\ slast'.exc # "none") => run_log' = run_log
       /\ Len(FileThenBuffer') >= total_runs_today'
       /\ \A i \in 1..total_runs_today' :
            FileThenBuffer'[Len(FileThenBuffer') - total_runs_today' + i]
              .run_number = i]_vars

=============================================================================
